---------------------------- MODULE Spec2Model ----------------------------
(***************************************************************************)
(* Token normalization pipeline of FuseUI (packages/core).                 *)
(*                                                                         *)
(* Strings the code inspects character by character (variable names,      *)
(* colour literals, DTCG paths and values) are sequences of one-character *)
(* strings.  Opaque identifiers (variable ids, mode ids, collection ids)  *)
(* and fixed message templates are TLA+ strings.  A JavaScript value that *)
(* may be null is a record whose tag says so.                              *)
(***************************************************************************)
EXTENDS Integers, Sequences, FiniteSets, TLC

VARIABLES
    importer,      \* the importer that was constructed: "figma" or "dtcg"
    pc,            \* position of its ingest
    varFetch,      \* settlement of apiClient.fetchVariables()
    colFetch,      \* settlement of apiClient.fetchVariableCollections()
    fileLoad,      \* settlement of loadDTCGFile()
    variables,     \* variablesResult.value.meta.variables, in Object.entries order
    collections,   \* the collections table of ingest, in Object.values order
    flattenedTokens, \* the map flattenDTCGTokens returned, in insertion order
    idx,           \* index of the next entry of the normalization loop
    tokens,        \* tokens record of ingest, in key insertion order
    warnings,      \* warnings array of ingest
    errors,        \* errors array of ingest
    thrown,        \* the Error ingest rejected with
    consoleLog,    \* what the importer and normalizeVariable wrote with console.warn
    call,          \* a call of one of the exported pure functions: its argument and result
    suspended      \* the locals of a second ingest call while the first one runs

vars == <<importer, pc, varFetch, colFetch, fileLoad, variables, collections,
          flattenedTokens, idx, tokens, warnings, errors, thrown, consoleLog, call,
          suspended>>

-----------------------------------------------------------------------------
(* Characters and strings *)

UpperChars == <<"A","B","C","D","E","F","G","H","I","J","K","L","M",
                "N","O","P","Q","R","S","T","U","V","W","X","Y","Z">>
LowerChars == <<"a","b","c","d","e","f","g","h","i","j","k","l","m",
                "n","o","p","q","r","s","t","u","v","w","x","y","z">>

\* String.prototype.toLowerCase on one character
ToLowerChar(c) ==
    IF \E i \in 1..26 : UpperChars[i] = c
    THEN LowerChars[CHOOSE i \in 1..26 : UpperChars[i] = c]
    ELSE c

ToLowerCase(s) == [i \in 1..Len(s) |-> ToLowerChar(s[i])]

\* the characters the regular expression class \s matches, of those modelled
IsWhitespace(c) == c \in {" ", "\t"}

\* String.prototype.replace(/\//g, ".")
ReplaceSlashes(s) == [i \in 1..Len(s) |-> IF s[i] = "/" THEN "." ELSE s[i]]

\* String.prototype.replace(/\s+/g, "-"): every maximal run of whitespace
\* becomes one hyphen
RECURSIVE ReplaceWhitespaceRuns(_)
ReplaceWhitespaceRuns(s) ==
    IF s = <<>> THEN <<>>
    ELSE IF IsWhitespace(Head(s))
         THEN IF Len(s) > 1 /\ IsWhitespace(s[2])
              THEN ReplaceWhitespaceRuns(Tail(s))
              ELSE <<"-">> \o ReplaceWhitespaceRuns(Tail(s))
         ELSE <<Head(s)>> \o ReplaceWhitespaceRuns(Tail(s))

\* figma-normalizers: normalizeVariableName
normalizeVariableName(name) ==
    ToLowerCase(ReplaceWhitespaceRuns(ReplaceSlashes(name)))

-----------------------------------------------------------------------------
(* Numbers.  A JavaScript number is NaN or the rational num/den, den > 0. *)

NaN == [nan |-> TRUE, num |-> 0, den |-> 1]
Num(n) == [nan |-> FALSE, num |-> n, den |-> 1]
Ratio(n, d) == [nan |-> FALSE, num |-> n, den |-> d]

\* x / k for a positive integer k
DivideBy(x, k) == IF x.nan THEN NaN ELSE Ratio(x.num, x.den * k)

NumEq(x, y) == ~x.nan /\ ~y.nan /\ x.num * y.den = y.num * x.den
NumLeq(x, y) == ~x.nan /\ ~y.nan /\ x.num * y.den <= y.num * x.den

DigitChars == <<"0","1","2","3","4","5","6","7","8","9">>
HexChars == <<"0","1","2","3","4","5","6","7","8","9","a","b","c","d","e","f">>

IsDigit(c) == \E i \in 1..10 : DigitChars[i] = c
DigitVal(c) == (CHOOSE i \in 1..10 : DigitChars[i] = c) - 1
IsHexDigit(c) == \E i \in 1..16 : HexChars[i] = ToLowerChar(c)
HexVal(c) == (CHOOSE i \in 1..16 : HexChars[i] = ToLowerChar(c)) - 1

\* first position at or after p that holds no whitespace
RECURSIVE SkipWs(_, _)
SkipWs(s, p) ==
    IF p <= Len(s) /\ IsWhitespace(s[p]) THEN SkipWs(s, p + 1) ELSE p

\* first position at or after p that holds no decimal digit
RECURSIVE DigitsEnd(_, _)
DigitsEnd(s, p) ==
    IF p <= Len(s) /\ IsDigit(s[p]) THEN DigitsEnd(s, p + 1) ELSE p

\* first position at or after p that holds no hexadecimal digit
RECURSIVE HexDigitsEnd(_, _)
HexDigitsEnd(s, p) ==
    IF p <= Len(s) /\ IsHexDigit(s[p]) THEN HexDigitsEnd(s, p + 1) ELSE p

\* value of the decimal digits s[from .. to-1]
RECURSIVE DecValue(_, _, _)
DecValue(s, from, to) ==
    IF to <= from THEN 0
    ELSE 10 * DecValue(s, from, to - 1) + DigitVal(s[to - 1])

\* value of the hexadecimal digits s[from .. to-1]
RECURSIVE HexValue(_, _, _)
HexValue(s, from, to) ==
    IF to <= from THEN 0
    ELSE 16 * HexValue(s, from, to - 1) + HexVal(s[to - 1])

RECURSIVE Pow10(_)
Pow10(k) == IF k <= 0 THEN 1 ELSE 10 * Pow10(k - 1)

\* parseInt(s, 16): leading whitespace, a sign and a 0x prefix are accepted,
\* then the longest run of hexadecimal digits; no digit gives NaN
parseInt16(s) ==
    LET p0 == SkipWs(s, 1)
        neg == p0 <= Len(s) /\ s[p0] = "-"
        p1 == IF p0 <= Len(s) /\ s[p0] \in {"-", "+"} THEN p0 + 1 ELSE p0
        p2 == IF p1 + 1 <= Len(s) /\ s[p1] = "0" /\ s[p1 + 1] \in {"x", "X"}
              THEN p1 + 2 ELSE p1
        e  == HexDigitsEnd(s, p2)
    IN  IF e = p2 THEN NaN
        ELSE Num(IF neg THEN 0 - HexValue(s, p2, e) ELSE HexValue(s, p2, e))

\* Number.parseFloat on a string of decimal digits and dots, as the colour
\* and dimension regular expressions capture it
parseFloatDec(s) ==
    LET e1 == DigitsEnd(s, 1)
        hasDot == e1 <= Len(s) /\ s[e1] = "."
        e2 == IF hasDot THEN DigitsEnd(s, e1 + 1) ELSE e1
        fracLen == IF hasDot THEN e2 - (e1 + 1) ELSE 0
    IN  IF e1 = 1 /\ fracLen = 0 THEN NaN
        ELSE Ratio(DecValue(s, 1, e1) * Pow10(fracLen)
                     + (IF hasDot THEN DecValue(s, e1 + 1, e2) ELSE 0),
                   Pow10(fracLen))

\* Number(s) for a string: the empty string is 0, a run of decimal digits is
\* its value, any string holding another character of the modelled alphabet
\* (a letter, "#", "{") is NaN
NumberOfString(s) ==
    IF s = <<>> THEN Num(0)
    ELSE IF DigitsEnd(s, 1) = Len(s) + 1 THEN Num(DecValue(s, 1, Len(s) + 1))
    ELSE NaN

\* String(n) for a non-negative integer
RECURSIVE StringOfNat(_)
StringOfNat(n) ==
    IF n < 10 THEN <<DigitChars[n + 1]>>
    ELSE StringOfNat(n \div 10) \o <<DigitChars[(n % 10) + 1]>>

StartsWith(s, prefix) ==
    Len(s) >= Len(prefix) /\ SubSeq(s, 1, Len(prefix)) = prefix

\* String.prototype.replace(c, ""): the first occurrence only
RemoveFirst(s, c) ==
    IF \E i \in 1..Len(s) : s[i] = c
    THEN LET i == CHOOSE k \in 1..Len(s) : s[k] = c /\ \A j \in 1..(k-1) : s[j] # c
         IN  SubSeq(s, 1, i - 1) \o SubSeq(s, i + 1, Len(s))
    ELSE s

-----------------------------------------------------------------------------
(* Colour parser.  A parser's result is a payload record tagged k, or Null. *)

Null == [k |-> "null"]
ColorValue(r, g, b, a) == [k |-> "color", r |-> r, g |-> g, b |-> b, a |-> a]

parseHexColor(hex) ==
    LET hexClean == RemoveFirst(hex, "#")
        \* the i-th pair of digits; for the 3-digit form the i-th digit doubled
        pair(i) == IF Len(hexClean) = 3 THEN <<hexClean[i], hexClean[i]>>
                   ELSE SubSeq(hexClean, 2 * i - 1, 2 * i)
        channel == [i \in 1..(IF Len(hexClean) = 8 THEN 4 ELSE 3) |->
                       DivideBy(parseInt16(pair(i)), 255)]
    IN  IF Len(hexClean) \in {3, 6}
        THEN ColorValue(channel[1], channel[2], channel[3], Num(1))
        ELSE IF Len(hexClean) = 8
        THEN ColorValue(channel[1], channel[2], channel[3], channel[4])
        ELSE Null

\* \d+(?:\.\d+)? at position p: the position after the match, 0 if none
NumberEnd(s, p) ==
    LET e1 == DigitsEnd(s, p)
        e2 == IF e1 <= Len(s) /\ s[e1] = "." THEN DigitsEnd(s, e1 + 1) ELSE e1
    IN  IF e1 = p THEN 0 ELSE IF e2 > e1 + 1 THEN e2 ELSE e1

\* [\d.]+ at position p: the position after the match, p if none
RECURSIVE DigitsDotsEnd(_, _)
DigitsDotsEnd(s, p) ==
    IF p <= Len(s) /\ (IsDigit(s[p]) \/ s[p] = ".") THEN DigitsDotsEnd(s, p + 1) ELSE p

\* The colour expressions as sequences of elements: a literal character
\* (matched in either case, the /i flag), \s*, a captured \d+(?:\.\d+)?  and a
\* captured [\d.]+.  After each element the next one cannot start with a
\* character the element itself accepts, so matching never backtracks inside
\* an element.
Lit(c) == [op |-> "lit", c |-> c]
Ws == [op |-> "ws", c |-> ""]
CapNumber == [op |-> "number", c |-> ""]
CapDigitsDots == [op |-> "digitsdots", c |-> ""]

RgbChannels ==
    <<Ws, Lit("("), Ws, CapNumber, Ws, Lit(","), Ws, CapNumber, Ws, Lit(","), Ws, CapNumber, Ws>>
RgbPattern == <<Lit("r"), Lit("g"), Lit("b")>> \o RgbChannels \o <<Lit(")")>>
RgbaPatternAlpha ==
    <<Lit("r"), Lit("g"), Lit("b"), Lit("a")>> \o RgbChannels
        \o <<Lit(","), Ws, CapDigitsDots, Ws, Lit(")")>>
RgbaPatternNoAlpha ==
    <<Lit("r"), Lit("g"), Lit("b"), Lit("a")>> \o RgbChannels \o <<Lit(")")>>

NoMatch == [ok |-> FALSE, caps |-> <<>>]

\* elements k.. of pattern matched at position p of s, caps captured so far
RECURSIVE MatchFrom(_, _, _, _, _)
MatchFrom(s, p, pattern, k, caps) ==
    IF k > Len(pattern) THEN [ok |-> TRUE, caps |-> caps]
    ELSE LET q == CASE pattern[k].op = "ws" -> SkipWs(s, p)
                    [] pattern[k].op = "lit" ->
                          IF p <= Len(s) /\ ToLowerChar(s[p]) = pattern[k].c THEN p + 1 ELSE 0
                    [] pattern[k].op = "number" -> NumberEnd(s, p)
                    [] OTHER -> IF DigitsDotsEnd(s, p) > p THEN DigitsDotsEnd(s, p) ELSE 0
         IN  IF q = 0 THEN NoMatch
             ELSE MatchFrom(s, q, pattern, k + 1,
                            IF pattern[k].op \in {"number", "digitsdots"}
                            THEN Append(caps, SubSeq(s, p, q - 1)) ELSE caps)

\* String.prototype.match: the match at the leftmost position where one of
\* the alternatives, tried in order, matches
RECURSIVE FirstMatch(_, _, _)
FirstMatch(s, q, alternatives) ==
    IF q > Len(s) THEN NoMatch
    ELSE IF \E a \in 1..Len(alternatives) : MatchFrom(s, q, alternatives[a], 1, <<>>).ok
    THEN MatchFrom(s, q,
                   alternatives[CHOOSE a \in 1..Len(alternatives) :
                       /\ MatchFrom(s, q, alternatives[a], 1, <<>>).ok
                       /\ \A b \in 1..(a-1) : ~MatchFrom(s, q, alternatives[b], 1, <<>>).ok],
                   1, <<>>)
    ELSE FirstMatch(s, q + 1, alternatives)

parseRgbaColor(rgba) ==
    LET match == FirstMatch(rgba, 1, <<RgbaPatternAlpha, RgbaPatternNoAlpha>>)
    IN  IF ~match.ok THEN Null
        ELSE ColorValue(DivideBy(parseFloatDec(match.caps[1]), 255),
                        DivideBy(parseFloatDec(match.caps[2]), 255),
                        DivideBy(parseFloatDec(match.caps[3]), 255),
                        IF Len(match.caps) = 4 THEN parseFloatDec(match.caps[4]) ELSE Num(1))

parseRgbColor(rgb) ==
    LET match == FirstMatch(rgb, 1, <<RgbPattern>>)
    IN  IF ~match.ok THEN Null
        ELSE ColorValue(DivideBy(parseFloatDec(match.caps[1]), 255),
                        DivideBy(parseFloatDec(match.caps[2]), 255),
                        DivideBy(parseFloatDec(match.caps[3]), 255),
                        Num(1))

parseColor(colorString) ==
    IF colorString = <<>> THEN Null
    ELSE IF StartsWith(colorString, <<"#">>) THEN parseHexColor(colorString)
    ELSE IF StartsWith(colorString, <<"r","g","b","a","(">>) THEN parseRgbaColor(colorString)
    ELSE IF StartsWith(colorString, <<"r","g","b","(">>) THEN parseRgbColor(colorString)
    ELSE Null

-----------------------------------------------------------------------------
(* JSON primitives as the Figma API delivers them in FigmaVariableValue.value *)

RawString(s)  == [t |-> "string",    s |-> s,    n |-> 0, b |-> FALSE]
RawNumber(n)  == [t |-> "number",    s |-> <<>>, n |-> n, b |-> FALSE]
RawBoolean(b) == [t |-> "boolean",   s |-> <<>>, n |-> 0, b |-> b]
RawUndefined  == [t |-> "undefined", s |-> <<>>, n |-> 0, b |-> FALSE]

\* String(value)
StringOf(raw) ==
    CASE raw.t = "string"  -> raw.s
      [] raw.t = "number"  -> IF raw.n < 0 THEN <<"-">> \o StringOfNat(0 - raw.n)
                              ELSE StringOfNat(raw.n)
      [] raw.t = "boolean" -> IF raw.b THEN <<"t","r","u","e">> ELSE <<"f","a","l","s","e">>
      [] OTHER             -> <<"u","n","d","e","f","i","n","e","d">>

\* Number(value)
NumberOf(raw) ==
    CASE raw.t = "string"  -> NumberOfString(raw.s)
      [] raw.t = "number"  -> Num(raw.n)
      [] raw.t = "boolean" -> IF raw.b THEN Num(1) ELSE Num(0)
      [] OTHER             -> NaN

\* Boolean(value)
BooleanOf(raw) ==
    CASE raw.t = "string"  -> raw.s # <<>>
      [] raw.t = "number"  -> raw.n # 0
      [] raw.t = "boolean" -> raw.b
      [] OTHER             -> FALSE

BooleanPayload(b) == [k |-> "boolean", b |-> b]
NumberPayload(v)  == [k |-> "number", v |-> v]
StringPayload(s)  == [k |-> "string", s |-> s]

-----------------------------------------------------------------------------
(* figma-normalizers *)

\* the TokenType, or "" for null
mapFigmaTypeToTokenType(figmaType) ==
    CASE figmaType = "COLOR"   -> "color"
      [] figmaType = "FLOAT"   -> "number"
      [] figmaType = "STRING"  -> "string"
      [] figmaType = "BOOLEAN" -> "boolean"
      [] OTHER                 -> ""

parseValue(value, resolvedType) ==
    IF value.t = "undefined" THEN Null
    ELSE CASE resolvedType = "BOOLEAN" ->
                  BooleanPayload(IF value.t = "boolean" THEN value.b ELSE BooleanOf(value))
           [] resolvedType = "FLOAT" ->
                  NumberPayload(IF value.t = "number" THEN Num(value.n) ELSE NumberOf(value))
           [] resolvedType = "STRING" -> StringPayload(StringOf(value))
           [] resolvedType = "COLOR" -> parseColor(StringOf(value))
           [] OTHER -> Null

\* TokenValueOrAlias, or NoValue for null
NoValue == [type |-> "null"]
TokenAlias(reference) == [type |-> "alias", reference |-> reference]
TokenValue(payload) == [type |-> "value", value |-> payload]

\* lines 462-468: a value that failed to parse gives null
ValueOrNull(normalizedValue) ==
    IF normalizedValue = Null THEN NoValue ELSE TokenValue(normalizedValue)

\* variableIdToName is a function from variable ids to normalized names
normalizeVariableValue(value, resolvedType, variableIdToName) ==
    IF value.type = "ALIAS"
    THEN IF value.value.t # "string" THEN NoValue
         ELSE IF value.value.s \notin DOMAIN variableIdToName THEN NoValue
         ELSE IF variableIdToName[value.value.s] = <<>> THEN NoValue
         ELSE TokenAlias(variableIdToName[value.value.s])
    ELSE IF value.type # "VALUE" THEN NoValue
    ELSE ValueOrNull(parseValue(value.value, resolvedType))


\* A JavaScript object with string keys is a sequence of [key, value] records in
\* insertion order; assigning to a key it already holds keeps the key's place.
HasKey(obj, key) == \E i \in 1..Len(obj) : obj[i].key = key
Get(obj, key) == obj[CHOOSE i \in 1..Len(obj) : obj[i].key = key].value
Put(obj, key, value) ==
    IF HasKey(obj, key)
    THEN [i \in 1..Len(obj) |->
            IF obj[i].key = key THEN [key |-> key, value |-> value] ELSE obj[i]]
    ELSE Append(obj, [key |-> key, value |-> value])

\* messages of normalizeVariable
\*   unsupported-type: Unsupported variable type "<resolved_type>" for variable
\*                     "<name>" (<id>). Skipping.
UnsupportedTypeWarning(variable) ==
    [kind |-> "unsupported-type", resolved_type |-> variable.resolved_type,
     name |-> variable.name, id |-> variable.id]
ConsoleOnly(kind, variable) == [kind |-> kind, name |-> variable.name, id |-> variable.id]

\* the mode ID itself, whatever the collections name it
RawModeId(modeIdToName, modeId) == modeId

\* modeIdToName.get(modeId) || modeId
ModeName(modeIdToName, modeId) ==
    IF modeId \in DOMAIN modeIdToName /\ modeIdToName[modeId] # ""
    THEN modeIdToName[modeId] ELSE modeId

\* one iteration of the loop over Object.entries(variable.values_by_mode): the
\* pair it adds to modes, if any
ModeEntry(entry, normalizedValue, modeIdToName, selectedDefaultModeId) ==
    IF entry.key = selectedDefaultModeId \/ normalizedValue = NoValue
    THEN <<>>
    ELSE <<[key |-> ModeName(modeIdToName, entry.key), value |-> normalizedValue]>>

\* the loop over Object.entries(variable.values_by_mode) that fills modes,
\* from entry i on
RECURSIVE ProcessModes(_, _, _, _, _, _)
ProcessModes(entries, i, resolvedType, variableIdToName, modeIdToName, selectedDefaultModeId) ==
    IF i > Len(entries) THEN <<>>
    ELSE ModeEntry(entries[i],
                   normalizeVariableValue(entries[i].value, resolvedType, variableIdToName),
                   modeIdToName, selectedDefaultModeId)
         \o ProcessModes(entries, i + 1, resolvedType, variableIdToName,
                         modeIdToName, selectedDefaultModeId)

\* modes[modeName] = normalizedValue for every collected pair, in order
RECURSIVE AssignAll(_, _)
AssignAll(obj, pairs) ==
    IF pairs = <<>> THEN obj
    ELSE AssignAll(Put(obj, Head(pairs).key, Head(pairs).value), Tail(pairs))

\* the first key of values_by_mode, whatever the collection's default mode
SelectFirstModeId(modeEntries, defaultModeId) == modeEntries[1].key

\* the mode whose value becomes the primary value: defaultModeId when
\* values_by_mode has it, else the first key.  defaultModeId "" stands for
\* undefined (both are falsy, and the parameter is only tested for truthiness
\* and used as a key).
SelectDefaultModeId(modeEntries, defaultModeId) ==
    IF defaultModeId # "" /\ HasKey(modeEntries, defaultModeId)
    THEN defaultModeId ELSE modeEntries[1].key

\* what normalizeVariable returns without a token
NoToken(warned, logged) ==
    [outcome |-> "null",
     token |-> [id |-> <<>>, name |-> <<>>, type |-> "", value |-> NoValue,
                modes |-> <<>>, metadata |-> [source |-> "", sourceId |-> <<>>]],
     warnings |-> warned, console |-> logged]

\* the token built from the normalized default value and the other modes; an
\* empty modes stands for undefined
BuildToken(variable, defaultValue, modes) ==
    IF defaultValue = NoValue
    THEN NoToken(<<>>, <<ConsoleOnly("default-value-failed", variable)>>)
    ELSE [outcome |-> "token",
          token |-> [id |-> variable.id,
                     name |-> normalizeVariableName(variable.name),
                     type |-> mapFigmaTypeToTokenType(variable.resolved_type),
                     value |-> defaultValue, modes |-> modes,
                     metadata |-> [source |-> "figma", sourceId |-> variable.id]],
          warnings |-> <<>>, console |-> <<>>]

\* lines 505-556 for the selected default mode
NormalizeModes(variable, selectedDefaultModeId, variableIdToName, modeIdToName) ==
    BuildToken(variable,
               normalizeVariableValue(Get(variable.values_by_mode.entries,
                                          selectedDefaultModeId),
                                      variable.resolved_type, variableIdToName),
               AssignAll(<<>>, ProcessModes(variable.values_by_mode.entries, 1,
                                            variable.resolved_type, variableIdToName,
                                            modeIdToName, selectedDefaultModeId)))

\* variable.values_by_mode is [null |-> TRUE] for a malformed variable without
\* the field, on which Object.entries throws a TypeError.  The result says
\* whether a token or null was returned or an exception thrown, and what was
\* pushed to warnings and written to the console.
normalizeVariable(variable, variableIdToName, modeIdToName, defaultModeId) ==
    IF mapFigmaTypeToTokenType(variable.resolved_type) = ""
    THEN NoToken(<<UnsupportedTypeWarning(variable)>>, <<UnsupportedTypeWarning(variable)>>)
    ELSE IF variable.values_by_mode.null
    THEN [NoToken(<<>>, <<>>) EXCEPT !.outcome = "throw"]
    ELSE IF Len(variable.values_by_mode.entries) = 0
    THEN NoToken(<<>>, <<ConsoleOnly("no-values", variable)>>)
    ELSE NormalizeModes(variable,
                        SelectDefaultModeId(variable.values_by_mode.entries, defaultModeId),
                        variableIdToName, modeIdToName)

-----------------------------------------------------------------------------
(* figma-api-client *)

FileKey == "FILE"

\* an HTTP response as makeRequest reads it; status 0 stands for fetch itself
\* rejecting (no response at all)
HttpResponse(status, retryAfter, err, hasMeta) ==
    [status |-> status, retryAfter |-> retryAfter, err |-> err, hasMeta |-> hasMeta]

\* the message of the Error makeRequest throws, "" when it returns the body
makeRequest(response) ==
    CASE response.status = 0 -> "fetch failed"
      [] response.status = 429 ->
            "Rate limit exceeded" \o
            (IF response.retryAfter # ""
             THEN ". Retry after " \o response.retryAfter \o " seconds" ELSE "")
      [] response.status \in {401, 403} ->
            "Authentication failed: Invalid or expired Personal Access Token"
      [] response.status = 404 ->
            "File not found: Invalid file key \"" \o FileKey \o "\""
      [] response.status \notin 200..299 /\ response.status \notin {0, 429, 401, 403, 404} ->
            IF response.err # "" THEN response.err
            ELSE "API request failed with status " \o ToString(response.status)
      [] OTHER -> ""

\* fetchVariables / fetchVariableCollections: the settled promise
Settled(response, body, missing) ==
    IF makeRequest(response) # ""
    THEN [status |-> "rejected", reason |-> makeRequest(response), value |-> <<>>]
    ELSE IF ~response.hasMeta
    THEN [status |-> "rejected", reason |-> missing, value |-> <<>>]
    ELSE [status |-> "fulfilled", reason |-> "", value |-> body]

fetchVariables(response, body) ==
    Settled(response, body, "Invalid response: missing variables")

fetchVariableCollections(response, body) ==
    Settled(response, body, "Invalid response: missing variableCollections")

Idle == [status |-> "idle", reason |-> "", value |-> <<>>]
Pending == [status |-> "pending", reason |-> "", value |-> <<>>]

\* the locals of an ingest call of an importer before it is called; importer
\* "none" stands for no call at all
NotCalled(imp) ==
    [importer |-> imp, pc |-> "idle", varFetch |-> Idle, colFetch |-> Idle, fileLoad |-> Idle,
     variables |-> <<>>, collections |-> <<>>, flattenedTokens |-> <<>>, idx |-> 0,
     tokens |-> <<>>, warnings |-> <<>>, errors |-> <<>>, thrown |-> <<>>]

-----------------------------------------------------------------------------
(* FigmaImporter.ingest *)

\* Promise.all: the await resumes once both are fulfilled or one is rejected
all(v, c) ==
    \/ v.status = "rejected"
    \/ c.status = "rejected"
    \/ (v.status = "fulfilled" /\ c.status = "fulfilled")

\* Promise.allSettled: the await resumes once neither promise is pending
allSettled(v, c) == v.status \in {"fulfilled", "rejected"} /\ c.status \in {"fulfilled", "rejected"}

\* the map of the variables the loop of lines 104-132 has passed, as it would
\* be were it filled by that loop
VariableIdToNameSoFar(vs) ==
    [id \in {vs[i].id : i \in 1..(idx - 1)} |->
        normalizeVariableName(
            vs[CHOOSE i \in 1..(idx - 1) :
                  vs[i].id = id /\ \A j \in (i+1)..(idx - 1) : vs[j].id # id].name)]

\* const variableIdToName = new Map(); later entries of the same id overwrite
VariableIdToName(vs) ==
    [id \in {vs[i].id : i \in 1..Len(vs)} |->
        normalizeVariableName(
            vs[CHOOSE i \in 1..Len(vs) :
                  vs[i].id = id /\ \A j \in (i+1)..Len(vs) : vs[j].id # id].name)]

\* all (collection index, mode index) pairs the loops over collections visit
ModeSlots(cs) ==
    UNION {{<<i, j>> : j \in 1..Len(cs[i].modes)} : i \in 1..Len(cs)}

\* const modeIdToName = new Map(); the last collection and mode naming an id wins
ModeIdToName(cs) ==
    [m \in {cs[p[1]].modes[p[2]].mode_id : p \in ModeSlots(cs)} |->
        LET last == CHOOSE p \in ModeSlots(cs) :
                       /\ cs[p[1]].modes[p[2]].mode_id = m
                       /\ \A q \in ModeSlots(cs) :
                             cs[q[1]].modes[q[2]].mode_id = m =>
                                (q[1] < p[1] \/ (q[1] = p[1] /\ q[2] <= p[2]))
        IN  cs[last[1]].modes[last[2]].name]

\* collectionIdToDefaultModeId.get(id); "" stands for undefined
CollectionDefaultModeId(cs, id) ==
    IF \E i \in 1..Len(cs) : cs[i].id = id
    THEN cs[CHOOSE i \in 1..Len(cs) :
               cs[i].id = id /\ \A j \in (i+1)..Len(cs) : cs[j].id # id].default_mode_id
    ELSE ""

\* Failed to fetch variable collections: <reason>. Continuing with mode IDs
\* instead of names.
CollectionsFailedWarning(errorMessage) ==
    [kind |-> "collections-failed",
     text |-> <<"Failed to fetch variable collections: ", errorMessage,
                ". Continuing with mode IDs instead of names.">>]

\* Token name collision: Variable "<name>" (<id>) normalizes to "<token name>"
\* which already exists. The later variable will overwrite the earlier one.
CollisionWarning(variable, id, token) ==
    [kind |-> "collision", name |-> variable.name, id |-> id, tokenName |-> token.name]

\* Failed to normalize variable "<name>" (<id>): <message>
NormalizeFailedWarning(variable, id, message) ==
    [kind |-> "normalize-failed", name |-> variable.name, id |-> id, message |-> message]

\* new Error(errorMessage), as its fragments
Unprefixed(errorMessage) == <<errorMessage>>

\* new Error(`Figma import failed: ${errorMessage}`), as its fragments
FigmaImportFailed(errorMessage) == <<"Figma import failed: ", errorMessage>>


\* lines 49-52: both requests are issued before ingest awaits either
IngestStart ==
    /\ importer = "figma"
    /\ pc = "idle"
    /\ pc' = "awaiting"
    /\ varFetch' = Pending
    /\ colFetch' = Pending
    /\ UNCHANGED <<call, suspended, importer, fileLoad, variables, collections, flattenedTokens, idx, tokens,
                   warnings, errors, thrown, consoleLog>>

\* the same with a failure of either retrieval thrown
AwaitSettledEitherFatal ==
    /\ pc = "awaiting"
    /\ allSettled(varFetch, colFetch)
    /\ IF varFetch.status = "rejected" \/ colFetch.status = "rejected"
       THEN /\ errors' = Append(errors, IF varFetch.status = "rejected"
                                        THEN varFetch.reason ELSE colFetch.reason)
            /\ thrown' = FigmaImportFailed(IF varFetch.status = "rejected"
                                           THEN varFetch.reason ELSE colFetch.reason)
            /\ pc' = "rejected"
            /\ UNCHANGED <<variables, collections, idx, warnings>>
       ELSE /\ variables' = varFetch.value
            /\ collections' = colFetch.value
            /\ idx' = 1
            /\ pc' = "normalizing"
            /\ UNCHANGED <<errors, thrown, warnings>>
    /\ UNCHANGED <<call, suspended, importer, varFetch, colFetch, fileLoad, flattenedTokens, tokens, consoleLog>>

\* lines 55-100, run when the await of line 49 resumes
AwaitSettled ==
    /\ pc = "awaiting"
    /\ allSettled(varFetch, colFetch)
    /\ IF varFetch.status = "rejected"
       THEN /\ errors' = Append(errors, varFetch.reason)
            /\ thrown' = FigmaImportFailed(varFetch.reason)
            /\ pc' = "rejected"
            /\ UNCHANGED <<variables, collections, idx, warnings>>
       ELSE /\ variables' = varFetch.value
            /\ collections' = IF colFetch.status = "rejected" THEN <<>> ELSE colFetch.value
            /\ warnings' = IF colFetch.status = "rejected"
                           THEN Append(warnings, CollectionsFailedWarning(colFetch.reason))
                           ELSE warnings
            /\ idx' = 1
            /\ pc' = "normalizing"
            /\ UNCHANGED <<errors, thrown>>
    /\ UNCHANGED <<call, suspended, importer, varFetch, colFetch, fileLoad, flattenedTokens, tokens, consoleLog>>

\* lines 109-131: what one iteration does with the outcome r of normalizeVariable;
\* every warning is also written to the console
LoopMessages(variable, id, r) ==
    IF r.outcome = "token" /\ HasKey(tokens, r.token.name)
    THEN <<CollisionWarning(variable, id, r.token)>>
    ELSE IF r.outcome = "throw"
    THEN <<NormalizeFailedWarning(variable, id, "Cannot convert undefined or null to object")>>
    ELSE <<>>

\* the same with the messages put before the earlier ones
RecordOutcomeNewestFirst(variable, id, r) ==
    /\ warnings' = r.warnings \o LoopMessages(variable, id, r) \o warnings
    /\ consoleLog' = consoleLog \o r.console \o LoopMessages(variable, id, r)
    /\ tokens' = IF r.outcome = "token" THEN Put(tokens, r.token.name, r.token) ELSE tokens

RecordOutcome(variable, id, r) ==
    /\ warnings' = warnings \o r.warnings \o LoopMessages(variable, id, r)
    /\ consoleLog' = consoleLog \o r.console \o LoopMessages(variable, id, r)
    /\ tokens' = IF r.outcome = "token" THEN Put(tokens, r.token.name, r.token) ELSE tokens

\* the same iteration without the try and catch of lines 105 and 125
NormalizeNextVariableUncaught ==
    /\ pc = "normalizing"
    /\ idx <= Len(variables)
    /\ IF normalizeVariable(variables[idx], VariableIdToName(variables),
                            ModeIdToName(collections),
                            CollectionDefaultModeId(collections,
                                variables[idx].variable_collection_id)).outcome = "throw"
       THEN /\ pc' = "rejected"
            /\ thrown' = <<"Cannot convert undefined or null to object">>
            /\ UNCHANGED <<idx, tokens, warnings, consoleLog>>
       ELSE /\ RecordOutcome(variables[idx], variables[idx].id,
                     normalizeVariable(variables[idx], VariableIdToName(variables),
                                       ModeIdToName(collections),
                                       CollectionDefaultModeId(collections,
                                           variables[idx].variable_collection_id)))
            /\ idx' = idx + 1
            /\ UNCHANGED <<pc, thrown>>
    /\ UNCHANGED <<call, suspended, importer, varFetch, colFetch, fileLoad, variables, collections,
                   flattenedTokens, errors>>

\* lines 104-132: one iteration of the loop over Object.entries(variables)
NormalizeNextVariable ==
    /\ pc = "normalizing"
    /\ idx <= Len(variables)
    /\ RecordOutcome(variables[idx], variables[idx].id,
                     normalizeVariable(variables[idx], VariableIdToName(variables),
                                       ModeIdToName(collections),
                                       CollectionDefaultModeId(collections,
                                           variables[idx].variable_collection_id)))
    /\ idx' = idx + 1
    /\ UNCHANGED <<call, suspended, importer, pc, varFetch, colFetch, fileLoad, variables, collections,
                   flattenedTokens, errors, thrown>>

\* lines 134-146
IngestReturn ==
    /\ pc = "normalizing"
    /\ idx > Len(variables)
    /\ pc' = "fulfilled"
    /\ UNCHANGED <<call, suspended, importer, varFetch, colFetch, fileLoad, variables, collections,
                   flattenedTokens, idx, tokens, warnings, errors, thrown, consoleLog>>

\* tokenSet.metadata of the returned result
FigmaMetadata == [source |-> "figma", name |-> <<"Figma Variables - ", FileKey>>]

-----------------------------------------------------------------------------
(* DTCG documents.  A parsed JSON value is a string, a number or an object; an
   object is [t |-> "object", o |-> its entries in insertion order].  Keys and
   paths are sequences of characters. *)

Chars(s) == [i \in 1..Len(s) |-> SubSeq(s, i, i)]

JsonObject(entries) == [t |-> "object", o |-> entries]

\* obj[key], undefined when the key is absent
Property(obj, key) == IF HasKey(obj.o, key) THEN Get(obj.o, key) ELSE RawUndefined

\* "<key>" in obj && typeof obj[key] === "string"
HasStringProperty(obj, key) == HasKey(obj.o, key) /\ Get(obj.o, key).t = "string"

\* value && typeof value === "object"
IsObject(value) == value.t = "object"

\* the keys that are never descended into
ReservedKeys == {Chars("$type"), Chars("$value"), Chars("$description"), Chars("$extensions")}

\* path ? `${path}.${key}` : key
JoinPath(path, key) == IF path = <<>> THEN key ELSE path \o <<".">> \o key

VALID_DTCG_TYPES ==
    {Chars("color"), Chars("dimension"), Chars("fontFamily"), Chars("fontSize"),
     Chars("fontWeight"), Chars("lineHeight"), Chars("letterSpacing"),
     Chars("borderRadius"), Chars("shadow")}

TypographyPropertyNames ==
    {Chars("fontFamily"), Chars("fontSize"), Chars("fontWeight"), Chars("lineHeight"),
     Chars("letterSpacing")}

-----------------------------------------------------------------------------
(* dtcg-validators *)

\* the diagnostics validateToken pushes for the node itself, and whether it
\* returned before looking at the node's children
TokenDiagnostics(token, path) ==
    IF ~HasKey(token.o, Chars("$type")) THEN [errors |-> <<>>, returned |-> FALSE]
    ELSE IF Property(token, Chars("$type")).t # "string"
    THEN [errors |-> <<[kind |-> "type-not-string", path |-> path]>>, returned |-> TRUE]
    ELSE [errors |->
            (IF Property(token, Chars("$type")).s \notin VALID_DTCG_TYPES
             THEN <<[kind |-> "invalid-type", path |-> path]>> ELSE <<>>)
            \o (IF ~HasKey(token.o, Chars("$value"))
                THEN <<[kind |-> "missing-value", path |-> path]>> ELSE <<>>),
          returned |-> FALSE]

RECURSIVE validateToken(_, _)
RECURSIVE ValidateChildren(_, _, _)

\* the loop over Object.entries(tokenObj), from entry i on
ValidateChildren(entries, i, path) ==
    IF i > Len(entries) THEN <<>>
    ELSE (IF entries[i].key \notin ReservedKeys /\ IsObject(entries[i].value)
          THEN validateToken(entries[i].value, JoinPath(path, entries[i].key))
          ELSE <<>>)
         \o ValidateChildren(entries, i + 1, path)

\* the diagnostics validateToken pushes for the node at path and below it
validateToken(token, path) ==
    IF TokenDiagnostics(token, path).returned
    THEN TokenDiagnostics(token, path).errors
    ELSE TokenDiagnostics(token, path).errors \o ValidateChildren(token.o, 1, path)

\* the loop over the root entries, from entry i on
RECURSIVE ValidateRoot(_, _)
ValidateRoot(entries, i) ==
    IF i > Len(entries) THEN <<>>
    ELSE (IF entries[i].key # Chars("$schema") /\ IsObject(entries[i].value)
          THEN validateToken(entries[i].value, entries[i].key) ELSE <<>>)
         \o ValidateRoot(entries, i + 1)

\* validateDTCGFile(file).errors; valid is errors.length === 0
validateDTCGFile(file) ==
    IF ~IsObject(file) THEN <<[kind |-> "not-an-object", path |-> <<>>]>>
    ELSE (IF HasKey(file.o, Chars("$schema")) /\ Property(file, Chars("$schema")).t # "string"
          THEN <<[kind |-> "schema-not-string", path |-> <<>>]>> ELSE <<>>)
         \o ValidateRoot(file.o, 1)

-----------------------------------------------------------------------------
(* dimension-parser, shadow-parser, dtcg-normalizers *)

Negate(x) == IF x.nan THEN NaN ELSE Ratio(0 - x.num, x.den)

\* Number.parseFloat: leading whitespace and a sign, then digits and a fraction
\* (the modelled strings hold no exponent and no "Infinity")
parseFloat(s) ==
    IF SkipWs(s, 1) <= Len(s) /\ s[SkipWs(s, 1)] = "-"
    THEN Negate(parseFloatDec(SubSeq(s, SkipWs(s, 1) + 1, Len(s))))
    ELSE IF SkipWs(s, 1) <= Len(s) /\ s[SkipWs(s, 1)] = "+"
    THEN parseFloatDec(SubSeq(s, SkipWs(s, 1) + 1, Len(s)))
    ELSE parseFloatDec(SubSeq(s, SkipWs(s, 1), Len(s)))

DimensionUnits == {Chars("px"), Chars("rem"), Chars("em"), Chars("pt")}

DimensionValue(value, unit) == [k |-> "dimension", value |-> value, unit |-> unit]

\* the same with the unit kept as it was written
DimensionMatchAsWritten(dimension, e) ==
    IF e = 0 \/ ToLowerCase(SubSeq(dimension, e, Len(dimension))) \notin DimensionUnits
    THEN Null
    ELSE DimensionValue(parseFloat(SubSeq(dimension, 1, e - 1)),
                        SubSeq(dimension, e, Len(dimension)))

\* the match of /^(-?\d+(?:\.\d+)?)(px|rem|em|pt)$/i whose number ends before
\* position e (0: the number did not match)
DimensionMatch(dimension, e) ==
    IF e = 0 \/ ToLowerCase(SubSeq(dimension, e, Len(dimension))) \notin DimensionUnits
    THEN Null
    ELSE DimensionValue(parseFloat(SubSeq(dimension, 1, e - 1)),
                        ToLowerCase(SubSeq(dimension, e, Len(dimension))))

parseDimension(dimension) ==
    IF dimension = <<>> THEN Null
    ELSE DimensionMatch(dimension,
                        NumberEnd(dimension, IF dimension[1] = "-" THEN 2 ELSE 1))

\* typeof shadow.<key> === "number" ? shadow.<key> : fallback
NumberProperty(shadow, key, fallback) ==
    IF Property(shadow, Chars(key)).t = "number" THEN Num(Property(shadow, Chars(key)).n)
    ELSE fallback

\* the ShadowValue for a parsed colour; spread and inset undefined are NaN and
\* "undefined"
ShadowValue(shadow, color) ==
    IF color = Null THEN Null
    ELSE [k |-> "shadow", color |-> color,
          offsetX |-> NumberProperty(shadow, "offsetX", Num(0)),
          offsetY |-> NumberProperty(shadow, "offsetY", Num(0)),
          blur |-> NumberProperty(shadow, "blur", Num(0)),
          spread |-> NumberProperty(shadow, "spread", NaN),
          inset |-> IF Property(shadow, Chars("inset")).t = "boolean"
                    THEN ToString(Property(shadow, Chars("inset")).b) ELSE "undefined"]

\* strings and objects; the modelled documents hold no arrays
parseShadowValue(value) ==
    IF value.t # "object" THEN Null
    ELSE IF Property(value, Chars("color")).t # "string" THEN Null
    ELSE ShadowValue(value, parseColor(Property(value, Chars("color")).s))

\* the same with dimension not among the supported types
mapColorTypeOnly(dtcgType, tokenPath) ==
    IF dtcgType = Chars("color") THEN "color" ELSE ""

\* the TokenType, or "" for null
mapDTCGTypeToTokenType(dtcgType, tokenPath) ==
    CASE dtcgType = Chars("color") -> "color"
      [] dtcgType = Chars("dimension") ->
            IF \E i \in 1..Len(tokenPath) :
                  i + 6 <= Len(tokenPath)
                  /\ ToLowerCase(SubSeq(tokenPath, i, i + 6)) = Chars("spacing")
            THEN "spacing" ELSE "dimension"
      [] dtcgType = Chars("borderRadius") -> "borderRadius"
      [] dtcgType = Chars("shadow") -> "shadow"
      [] OTHER -> ""

\* fontWeight given as a string: the number it starts with, else the string
FontWeightOfString(s, num) ==
    IF num.nan THEN StringPayload(s) ELSE NumberPayload(num)

parseDTCGValue(value, type) ==
    IF value.t \in {"undefined", "null"} THEN Null
    ELSE CASE type = Chars("color") ->
                  IF value.t # "string" THEN Null ELSE parseColor(value.s)
           [] type \in {Chars("dimension"), Chars("fontSize"), Chars("letterSpacing"),
                        Chars("borderRadius")} ->
                  IF value.t # "string" THEN Null ELSE parseDimension(value.s)
           [] type = Chars("lineHeight") ->
                  IF value.t = "number" THEN NumberPayload(Num(value.n))
                  ELSE IF value.t = "string" THEN parseDimension(value.s)
                  ELSE Null
           [] type = Chars("fontWeight") ->
                  IF value.t = "number" THEN NumberPayload(Num(value.n))
                  ELSE IF value.t = "string" THEN FontWeightOfString(value.s, parseFloat(value.s))
                  ELSE Null
           [] type = Chars("fontFamily") ->
                  IF value.t = "string" THEN StringPayload(value.s) ELSE Null
           [] type = Chars("shadow") -> parseShadowValue(value)
           [] OTHER -> Null

\* the capture of /^\{([^}]+)\}$/, or <<>> for null
parseAliasReference(value) ==
    IF /\ Len(value) >= 3
       /\ value[1] = "{"
       /\ value[Len(value)] = "}"
       /\ \A i \in 2..(Len(value) - 1) : value[i] # "}"
    THEN SubSeq(value, 2, Len(value) - 1)
    ELSE <<>>

\* the same without the lookup of lines 314-319
normalizeDTCGTokenValueUnchecked(value, type, tokenPath, allTokens) ==
    IF value.t = "string" /\ parseAliasReference(value.s) # <<>>
    THEN TokenAlias(parseAliasReference(value.s))
    ELSE ValueOrNull(parseDTCGValue(value, type))

\* allTokens is the flattener's map, a sequence of [key, value] in insertion order
normalizeDTCGTokenValue(value, type, tokenPath, allTokens) ==
    IF value.t = "string" /\ parseAliasReference(value.s) # <<>>
    THEN IF HasKey(allTokens, parseAliasReference(value.s))
         THEN TokenAlias(parseAliasReference(value.s))
         ELSE NoValue
    ELSE ValueOrNull(parseDTCGValue(value, type))

\* a child of a group that isTypographyGroup accepts
IsTypographyProperty(key, value) ==
    /\ IsObject(value)
    /\ key \in TypographyPropertyNames
    /\ HasStringProperty(value, Chars("$type"))
    /\ Property(value, Chars("$type")).s \in TypographyPropertyNames \cup {Chars("dimension")}

isTypographyGroup(group) ==
    /\ \A i \in 1..Len(group.o) :
          StartsWith(group.o[i].key, <<"$">>)
          \/ IsTypographyProperty(group.o[i].key, group.o[i].value)
    /\ HasKey(group.o, Chars("fontFamily"))
    /\ HasKey(group.o, Chars("fontSize"))

\* the switch of composeTypographyGroup: typography after the property key of
\* $type type with the parsed payload has been looked at
ComposeProperty(typography, key, type, payload) ==
    IF \/ key = Chars("fontFamily") /\ type = Chars("fontFamily") /\ payload.k = "string"
       \/ key = Chars("fontSize") /\ type \in {Chars("fontSize"), Chars("dimension")}
            /\ payload.k = "dimension"
       \/ key = Chars("fontWeight") /\ type = Chars("fontWeight")
       \/ key = Chars("lineHeight") /\ type \in {Chars("lineHeight"), Chars("dimension")}
            /\ payload.k \in {"dimension", "number"}
       \/ key = Chars("letterSpacing") /\ type \in {Chars("letterSpacing"), Chars("dimension")}
            /\ payload.k = "dimension"
    THEN Put(typography, key, payload)
    ELSE typography

\* one iteration of the loop of composeTypographyGroup
ComposeEntry(typography, key, token, normalizedValue) ==
    IF normalizedValue.type # "value" THEN typography
    ELSE ComposeProperty(typography, key, Property(token, Chars("$type")).s,
                         normalizedValue.value)

\* the loop of composeTypographyGroup from entry i on
RECURSIVE ComposeEntries(_, _, _, _, _)
ComposeEntries(entries, i, typography, allTokens, path) ==
    IF i > Len(entries) THEN typography
    ELSE ComposeEntries(entries, i + 1,
            IF \/ StartsWith(entries[i].key, <<"$">>)
               \/ ~IsObject(entries[i].value)
               \/ ~HasStringProperty(entries[i].value, Chars("$type"))
               \/ Property(entries[i].value, Chars("$type")).s = <<>>
            THEN typography
            ELSE ComposeEntry(typography, entries[i].key, entries[i].value,
                     normalizeDTCGTokenValue(Property(entries[i].value, Chars("$value")),
                                             Property(entries[i].value, Chars("$type")).s,
                                             JoinPath(path, entries[i].key), allTokens)),
            allTokens, path)

\* the TypographyValue as an object, or Null without fontFamily or fontSize
TypographyOrNull(typography) ==
    IF \/ ~HasKey(typography, Chars("fontFamily"))
       \/ Get(typography, Chars("fontFamily")).s = <<>>
       \/ ~HasKey(typography, Chars("fontSize"))
    THEN Null
    ELSE JsonObject(typography)

composeTypographyGroup(group, allTokens, path) ==
    TypographyOrNull(ComposeEntries(group.o, 1, <<>>, allTokens, path))

\* the same with no token ever suppressed
NeverSkip(currentPath, typographyGroups) == FALSE

\* const shouldSkip of processNode
ShouldSkip(currentPath, typographyGroups) ==
    \E d \in 1..Len(currentPath) :
        /\ currentPath[d] = "."
        /\ \A j \in (d + 1)..Len(currentPath) : currentPath[j] # "."
        /\ SubSeq(currentPath, d + 1, Len(currentPath)) \in TypographyPropertyNames
        /\ HasKey(typographyGroups, SubSeq(currentPath, 1, d - 1))

RECURSIVE processNode(_, _, _)
RECURSIVE ProcessChildren(_, _, _, _)

\* the loops over Object.entries(node), from entry i on; st holds the maps
\* tokens and typographyGroups
ProcessChildren(entries, i, currentPath, st) ==
    IF i > Len(entries) THEN st
    ELSE ProcessChildren(entries, i + 1, currentPath,
            IF entries[i].key \notin ReservedKeys /\ IsObject(entries[i].value)
            THEN processNode(entries[i].value, JoinPath(currentPath, entries[i].key), st)
            ELSE st)

processNode(node, currentPath, st) ==
    IF HasStringProperty(node, Chars("$type"))
    THEN IF ShouldSkip(currentPath, st.typographyGroups) THEN st
         ELSE [st EXCEPT !.tokens = Put(@, currentPath, node)]
    ELSE IF isTypographyGroup(node)
    THEN ProcessChildren(node.o, 1, currentPath,
                         [st EXCEPT !.typographyGroups = Put(@, currentPath, node)])
    ELSE ProcessChildren(node.o, 1, currentPath, st)

\* the loop over the root entries, from entry i on
RECURSIVE ProcessRoot(_, _, _)
ProcessRoot(entries, i, st) ==
    IF i > Len(entries) THEN st
    ELSE ProcessRoot(entries, i + 1,
            IF entries[i].key # Chars("$schema") /\ IsObject(entries[i].value)
            THEN processNode(entries[i].value, entries[i].key, st) ELSE st)

\* tempTokens: tokens and the property tokens of the group at path
RECURSIVE TempTokens(_, _, _, _)
TempTokens(tokenMap, entries, i, path) ==
    IF i > Len(entries) THEN tokenMap
    ELSE TempTokens(IF /\ ~StartsWith(entries[i].key, <<"$">>)
                       /\ IsObject(entries[i].value)
                       /\ HasKey(entries[i].value.o, Chars("$type"))
                    THEN Put(tokenMap, JoinPath(path, entries[i].key), entries[i].value)
                    ELSE tokenMap,
                    entries, i + 1, path)

\* tokens.set(path, syntheticToken) if the group composed
SetSynthetic(tokenMap, path, composed) ==
    IF composed = Null THEN tokenMap
    ELSE Put(tokenMap, path,
             JsonObject(<<[key |-> Chars("$type"), value |-> RawString(Chars("typography"))],
                          [key |-> Chars("$value"), value |-> composed]>>))

\* the loop over typographyGroups.entries(), from group i on
RECURSIVE ComposeGroups(_, _, _)
ComposeGroups(typographyGroups, i, tokenMap) ==
    IF i > Len(typographyGroups) THEN tokenMap
    ELSE ComposeGroups(typographyGroups, i + 1,
            SetSynthetic(tokenMap, typographyGroups[i].key,
                composeTypographyGroup(typographyGroups[i].value,
                    TempTokens(tokenMap, typographyGroups[i].value.o, 1, typographyGroups[i].key),
                    typographyGroups[i].key)))

\* what the walk over the document leaves in tokens and typographyGroups
Walk(file) == ProcessRoot(file.o, 1, [tokens |-> <<>>, typographyGroups |-> <<>>])

\* the map path -> token, a sequence of [key, value] in insertion order
flattenDTCGTokens(file) ==
    ComposeGroups(Walk(file).typographyGroups, 1, Walk(file).tokens)

\* messages of normalizeDTCGToken
\*   missing-type:       Token at path "<path>" missing $type
\*   invalid-typography: Token at path "<path>" has invalid typography composition
\*   unsupported-type:   Token at path "<path>" has unsupported type "<type>"
\*   invalid-value:      Token at path "<path>" has invalid or missing $value
TokenWarning(kind, path, token) ==
    [kind |-> kind, path |-> path, type |-> Property(token, Chars("$type"))]

\* what normalizeDTCGToken returns without a token
SkipToken(warning) ==
    [outcome |-> "null",
     token |-> [id |-> <<>>, name |-> <<>>, type |-> "", value |-> NoValue, modes |-> <<>>,
                description |-> RawUndefined, metadata |-> [source |-> ""]],
     warnings |-> <<warning>>]

\* path.replace(/\./g, "-").toLowerCase()
TokenId(path) ==
    ToLowerCase([i \in 1..Len(path) |-> IF path[i] = "." THEN "-" ELSE path[i]])

\* if (modeValue) modes[key] = modeValue
DTCGModeEntry(key, modeValue) ==
    IF modeValue = NoValue THEN <<>> ELSE <<[key |-> key, value |-> modeValue]>>

\* the loop of normalizeDTCGToken that collects modes, from entry i on
RECURSIVE DTCGModes(_, _, _, _, _)
DTCGModes(entries, i, tokenType, path, allTokens) ==
    IF i > Len(entries) THEN <<>>
    ELSE (IF /\ entries[i].key \notin ReservedKeys
             /\ IsObject(entries[i].value)
             /\ HasKey(entries[i].value.o, Chars("$value"))
             /\ ~(/\ HasStringProperty(entries[i].value, Chars("$type"))
                  /\ Property(entries[i].value, Chars("$type")).s \in TypographyPropertyNames)
          THEN DTCGModeEntry(entries[i].key,
                   normalizeDTCGTokenValue(Property(entries[i].value, Chars("$value")),
                                           tokenType, path, allTokens))
          ELSE <<>>)
         \o DTCGModes(entries, i + 1, tokenType, path, allTokens)

\* the NormalizedToken; an empty modes stands for undefined
DTCGTokenResult(path, token, normalizedType, defaultValue, modes) ==
    IF defaultValue = NoValue
    THEN SkipToken(TokenWarning("invalid-value", path, token))
    ELSE [outcome |-> "token",
          token |-> [id |-> TokenId(path), name |-> path, type |-> normalizedType,
                     value |-> defaultValue, modes |-> modes,
                     description |-> Property(token, Chars("$description")),
                     metadata |-> [source |-> "dtcg"]],
          warnings |-> <<>>]

normalizeDTCGToken(path, token, allTokens) ==
    IF ~HasStringProperty(token, Chars("$type")) \/ Property(token, Chars("$type")).s = <<>>
    THEN SkipToken(TokenWarning("missing-type", path, token))
    ELSE IF Property(token, Chars("$type")).s = Chars("typography")
    THEN IF /\ IsObject(Property(token, Chars("$value")))
            /\ HasKey(Property(token, Chars("$value")).o, Chars("fontFamily"))
            /\ HasKey(Property(token, Chars("$value")).o, Chars("fontSize"))
         THEN DTCGTokenResult(path, token, "typography",
                              TokenValue(Property(token, Chars("$value"))), <<>>)
         ELSE SkipToken(TokenWarning("invalid-typography", path, token))
    ELSE IF mapDTCGTypeToTokenType(Property(token, Chars("$type")).s, path) = ""
    THEN SkipToken(TokenWarning("unsupported-type", path, token))
    ELSE DTCGTokenResult(path, token,
             mapDTCGTypeToTokenType(Property(token, Chars("$type")).s, path),
             normalizeDTCGTokenValue(Property(token, Chars("$value")),
                                     Property(token, Chars("$type")).s, path, allTokens),
             AssignAll(<<>>, DTCGModes(token.o, 1, Property(token, Chars("$type")).s,
                                       path, allTokens)))

-----------------------------------------------------------------------------
(* file-loader *)

FilePath == "tokens.json"

\* what reading the file does: failure "" when it is read and parsed
FileRead(failure, message, json) == [failure |-> failure, message |-> message, json |-> json]

\* loadDTCGFile for a local path: the settled promise
loadDTCGFile(read) ==
    CASE read.failure = "" -> [status |-> "fulfilled", reason |-> "", value |-> read.json]
      [] read.failure = "SyntaxError" ->
            [status |-> "rejected", reason |-> "Invalid JSON in DTCG file: " \o read.message,
             value |-> <<>>]
      [] read.failure = "ENOENT" ->
            [status |-> "rejected", reason |-> "DTCG file not found: " \o FilePath,
             value |-> <<>>]
      [] OTHER ->
            [status |-> "rejected", reason |-> "Failed to load DTCG file: " \o read.message,
             value |-> <<>>]

-----------------------------------------------------------------------------
(* DTCGImporter.ingest *)

\* Token name collision: Multiple tokens normalize to "<name>". The later token
\* will overwrite the earlier one.
DTCGCollisionWarning(token) == [kind |-> "collision", tokenName |-> token.name]

\* new Error(`DTCG import failed: ${errorMessage}`), as its fragments
DTCGImportFailed(errorMessage) == <<"DTCG import failed: ", errorMessage>>

\* line 51: the file is requested
DTCGIngestStart ==
    /\ importer = "dtcg"
    /\ pc = "idle"
    /\ pc' = "loading"
    /\ fileLoad' = Pending
    /\ UNCHANGED <<call, suspended, importer, varFetch, colFetch, variables, collections, flattenedTokens,
                   idx, tokens, warnings, errors, thrown, consoleLog>>

\* the same with the validator's verdict ignored
ValidatedAnyway(file, validationErrors) ==
    /\ flattenedTokens' = flattenDTCGTokens(file)
    /\ idx' = 1
    /\ pc' = "normalizingTokens"
    /\ UNCHANGED <<errors, thrown>>

\* the same with the validator's errors recorded and the import carried on
ValidatedAndCarriedOn(file, validationErrors) ==
    IF ~IsObject(file)
    THEN /\ errors' = errors \o validationErrors
         /\ thrown' = DTCGImportFailed(<<"DTCG file validation failed: ", validationErrors>>)
         /\ pc' = "rejected"
         /\ UNCHANGED <<flattenedTokens, idx>>
    ELSE /\ errors' = errors \o validationErrors
         /\ flattenedTokens' = flattenDTCGTokens(file)
         /\ idx' = 1
         /\ pc' = "normalizingTokens"
         /\ UNCHANGED thrown

\* lines 60-70 for a loaded file with the validator's errors
Validated(file, validationErrors) ==
    IF validationErrors # <<>>
    THEN /\ errors' = errors \o validationErrors
         /\ thrown' = DTCGImportFailed(<<"DTCG file validation failed: ", validationErrors>>)
         /\ pc' = "rejected"
         /\ UNCHANGED <<flattenedTokens, idx>>
    ELSE /\ flattenedTokens' = flattenDTCGTokens(file)
         /\ idx' = 1
         /\ pc' = "normalizingTokens"
         /\ UNCHANGED <<errors, thrown>>

\* lines 50-70, run when the await of line 51 resumes
AwaitLoad ==
    /\ pc = "loading"
    /\ fileLoad.status \in {"fulfilled", "rejected"}
    /\ IF fileLoad.status = "rejected"
       THEN /\ errors' = Append(errors, <<"Failed to load DTCG file: ", fileLoad.reason>>)
            /\ thrown' = DTCGImportFailed(fileLoad.reason)
            /\ pc' = "rejected"
            /\ UNCHANGED <<flattenedTokens, idx>>
       ELSE Validated(fileLoad.value, validateDTCGFile(fileLoad.value))
    /\ UNCHANGED <<call, suspended, importer, varFetch, colFetch, fileLoad, variables, collections, tokens,
                   warnings, consoleLog>>

\* the collision warning of lines 84-88, if any
TokenMessages(r) ==
    IF r.outcome = "token" /\ HasKey(tokens, r.token.name)
    THEN <<DTCGCollisionWarning(r.token)>> ELSE <<>>

\* lines 82-90: what one iteration does with the outcome r of normalizeDTCGToken
RecordToken(r) ==
    /\ warnings' = warnings \o r.warnings \o TokenMessages(r)
    /\ consoleLog' = consoleLog \o TokenMessages(r)
    /\ tokens' = IF r.outcome = "token" THEN Put(tokens, r.token.name, r.token) ELSE tokens

\* lines 74-98: one iteration of the loop over flattenedTokens.entries()
NormalizeNextToken ==
    /\ pc = "normalizingTokens"
    /\ idx <= Len(flattenedTokens)
    /\ RecordToken(normalizeDTCGToken(flattenedTokens[idx].key, flattenedTokens[idx].value,
                                      flattenedTokens))
    /\ idx' = idx + 1
    /\ UNCHANGED <<call, suspended, importer, pc, varFetch, colFetch, fileLoad, variables, collections,
                   flattenedTokens, errors, thrown>>

\* lines 100-114
DTCGIngestReturn ==
    /\ pc = "normalizingTokens"
    /\ idx > Len(flattenedTokens)
    /\ pc' = "fulfilled"
    /\ UNCHANGED <<call, suspended, importer, varFetch, colFetch, fileLoad, variables, collections,
                   flattenedTokens, idx, tokens, warnings, errors, thrown, consoleLog>>

\* tokenSet.metadata of the returned result
DTCGMetadata == [source |-> "dtcg", name |-> <<"DTCG Tokens - ", FilePath>>]

-----------------------------------------------------------------------------
(* validators: validateAliasReferences and detectCircularReferences *)

\* A token set is tokenSet.tokens: a sequence of [key, value] in key insertion
\* order whose values are tokens; the validators read value and modes of a token.

\* the names tokenSet.tokens[name] finds on Object.prototype when the record
\* has no such key of its own
ObjectPrototypeKeys ==
    {Chars("constructor"), Chars("toString"), Chars("valueOf"), Chars("hasOwnProperty"),
     Chars("isPrototypeOf"), Chars("propertyIsEnumerable"), Chars("toLocaleString"),
     Chars("__proto__")}

\* { tokenName, reference } of an alias that names no key; the mode is "" for
\* the main value, and else tokenName is `<tokenName> (mode: <modeName>)`
AliasError(tokenName, modeName, reference) ==
    [tokenName |-> tokenName, mode |-> modeName, reference |-> reference]

\* the errors of the loop over Object.entries(token.modes), from mode m on
RECURSIVE ModeAliasErrors(_, _, _, _)
ModeAliasErrors(tokenSet, tokenName, modes, m) ==
    IF m > Len(modes) THEN <<>>
    ELSE (IF modes[m].value.type = "alias" /\ ~HasKey(tokenSet, modes[m].value.reference)
          THEN <<AliasError(tokenName, modes[m].key, modes[m].value.reference)>>
          ELSE <<>>)
         \o ModeAliasErrors(tokenSet, tokenName, modes, m + 1)

\* the same without the check of the mode values
RECURSIVE PrimaryAliasErrors(_, _)
PrimaryAliasErrors(tokenSet, i) ==
    IF i > Len(tokenSet) THEN <<>>
    ELSE (IF tokenSet[i].value.value.type = "alias"
             /\ ~HasKey(tokenSet, tokenSet[i].value.value.reference)
          THEN <<AliasError(tokenSet[i].key, "", tokenSet[i].value.value.reference)>>
          ELSE <<>>)
         \o PrimaryAliasErrors(tokenSet, i + 1)

\* the errors of the loop over Object.entries(tokenSet.tokens), from token i on
RECURSIVE AliasErrors(_, _)
AliasErrors(tokenSet, i) ==
    IF i > Len(tokenSet) THEN <<>>
    ELSE (IF tokenSet[i].value.value.type = "alias"
             /\ ~HasKey(tokenSet, tokenSet[i].value.value.reference)
          THEN <<AliasError(tokenSet[i].key, "", tokenSet[i].value.value.reference)>>
          ELSE <<>>)
         \o ModeAliasErrors(tokenSet, tokenSet[i].key, tokenSet[i].value.modes, 1)
         \o AliasErrors(tokenSet, i + 1)

validateAliasReferences(tokenSet) ==
    [valid |-> AliasErrors(tokenSet, 1) = <<>>, errors |-> AliasErrors(tokenSet, 1)]

\* path.indexOf(tokenName), 0 for -1
IndexOf(path, tokenName) ==
    IF \E p \in 1..Len(path) : path[p] = tokenName
    THEN CHOOSE p \in 1..Len(path) :
            path[p] = tokenName /\ \A q \in 1..(p - 1) : path[q] # tokenName
    ELSE 0

\* the same with the whole path reported, not its part from cycleStart on
FoundCycleWholePath(st, tokenName) ==
    IF IndexOf(st.path, tokenName) # 0
    THEN [st EXCEPT !.cycles = Append(@, Append(st.path, tokenName))]
    ELSE st

\* lines 225-234: tokenName is being visited
FoundCycle(st, tokenName) ==
    IF IndexOf(st.path, tokenName) # 0
    THEN [st EXCEPT !.cycles =
            Append(@, Append(SubSeq(st.path, IndexOf(st.path, tokenName), Len(st.path)),
                             tokenName))]
    ELSE st

\* lines 240-241
Enter(st, tokenName) ==
    [st EXCEPT !.visiting = @ \cup {tokenName}, !.path = Append(@, tokenName)]

\* lines 248-250, which an exception thrown further down skips
Leave(st, tokenName) ==
    IF st.threw THEN st
    ELSE [st EXCEPT !.visiting = @ \ {tokenName}, !.visited = @ \cup {tokenName},
                    !.path = SubSeq(@, 1, Len(@) - 1)]

\* resolveReference(tokenName, path) as what it does to cycles, visited,
\* visiting and path; its return value only feeds `|| value` and is dropped.
\* tokenSet.tokens[tokenName] for a name that is no key but a property of
\* Object.prototype gives that property, which is truthy and has no value:
\* `value.type` then throws a TypeError.
RECURSIVE resolveReference(_, _, _)
resolveReference(tokenSet, tokenName, st) ==
    IF st.threw THEN st
    ELSE IF ~HasKey(tokenSet, tokenName)
    THEN IF tokenName \in ObjectPrototypeKeys
         THEN [Enter(st, tokenName) EXCEPT !.threw = TRUE]
         ELSE st
    ELSE IF tokenName \in st.visiting THEN FoundCycle(st, tokenName)
    ELSE IF tokenName \in st.visited THEN st
    ELSE Leave(IF Get(tokenSet, tokenName).value.type = "alias"
               THEN resolveReference(tokenSet, Get(tokenSet, tokenName).value.reference,
                                     Enter(st, tokenName))
               ELSE Enter(st, tokenName),
               tokenName)

\* the loop over Object.keys(tokenSet.tokens), from key i on
RECURSIVE ResolveAll(_, _, _)
ResolveAll(tokenSet, i, st) ==
    IF i > Len(tokenSet) \/ st.threw THEN st
    ELSE ResolveAll(tokenSet, i + 1,
            IF tokenSet[i].key \in st.visited THEN st
            ELSE resolveReference(tokenSet, tokenSet[i].key, st))

\* what the call returns, or that it threw
CircularResult(st) ==
    [threw |-> st.threw, hasCircular |-> Len(st.cycles) > 0, cycles |-> st.cycles]

detectCircularReferences(tokenSet) ==
    CircularResult(ResolveAll(tokenSet, 1,
        [cycles |-> <<>>, visited |-> {}, visiting |-> {}, path |-> <<>>, threw |-> FALSE]))

-----------------------------------------------------------------------------
(* The Figma service: the responses the two requests can receive *)

MaxVars == 2        \* variables in a response that varies names, types and aliases
MaxModeVars == 1    \* variables in a response that varies the modes of a variable

SeqsUpTo(S, n) == UNION {[1..k -> S] : k \in 0..n}

VarId(i) == <<"V">> \o StringOfNat(i)
UnknownVarId == <<"V", "x">>

Value(raw) == [type |-> "VALUE", value |-> raw]
Alias(id) == [type |-> "ALIAS", value |-> RawString(id)]

Red == RawString(<<"#","F","0","0">>)
Blue == RawString(<<"#","0","0","F">>)
NotAColor == RawString(<<"r","e","d">>)

ValuesByMode(entries) == [null |-> FALSE, entries |-> entries]
MissingValuesByMode == [null |-> TRUE, entries |-> <<>>]

Shape(name, type, valuesByMode) ==
    [name |-> name, variable_collection_id |-> "C1", resolved_type |-> type,
     values_by_mode |-> valuesByMode]

\* a colour variable of one mode
RedVariable(name) ==
    Shape(name, "COLOR", ValuesByMode(<<[key |-> "M1", value |-> Value(Red)]>>))

\* names of which two normalize to c.p and one to x-y
VarNames == {<<"c","/","p">>, <<"C",".","P">>, <<"x"," "," ","y">>}

\* one mode: an alias to a variable of the response (itself, an earlier or a
\* later one)
SingleModeValues(n) == {Alias(VarId(i)) : i \in 1..n}

\* variables of one mode: each name with a good value, c/p and x  y also
\* with every alias to a variable of the response, c/p and C.P also with an
\* unparseable value, x  y also with an alias to no variable, c/p also
\* without values_by_mode and of a type normalizeVariable does not support
NameShapes(n) ==
    {Shape(name, "COLOR", ValuesByMode(<<[key |-> "M1", value |-> Value(Red)]>>)) :
        name \in VarNames}
    \cup {Shape(name, "COLOR", ValuesByMode(<<[key |-> "M1", value |-> v]>>)) :
            name \in {<<"c","/","p">>, <<"x"," "," ","y">>}, v \in SingleModeValues(n)}
    \cup {Shape(name, "COLOR", ValuesByMode(<<[key |-> "M1", value |-> Value(NotAColor)]>>)) :
            name \in {<<"c","/","p">>, <<"C",".","P">>}}
    \cup {Shape(<<"x"," "," ","y">>, "COLOR",
                ValuesByMode(<<[key |-> "M1", value |-> Alias(UnknownVarId)]>>)),
          Shape(<<"c","/","p">>, "COLOR", MissingValuesByMode),
          Shape(<<"c","/","p">>, "UNKNOWN_TYPE",
                ValuesByMode(<<[key |-> "M1", value |-> Value(Red)]>>))}

TypeShapes ==
    {Shape(<<"n">>, "FLOAT", ValuesByMode(<<[key |-> "M1", value |-> Value(v)]>>)) :
        v \in {RawNumber(1), RawString(<<"4","2">>), RawString(<<"a","b","c">>)}}
    \cup {Shape(<<"s">>, "STRING", ValuesByMode(<<[key |-> "M1", value |-> Value(RawNumber(7))]>>)),
          Shape(<<"b">>, "BOOLEAN", ValuesByMode(<<[key |-> "M1", value |-> Value(RawString(<<>>))]>>)),
          Shape(<<"u">>, "STRING", ValuesByMode(<<[key |-> "M1", value |-> Value(RawUndefined)]>>))}

ModeIds == {"M1", "M2"}
ModeValues == {Value(Red), Value(Blue), Value(NotAColor), Alias(VarId(1))}

\* zero, one or two modes, in either insertion order
ModeShapes ==
    {Shape(<<"m">>, "COLOR", ValuesByMode(<<>>))}
    \cup {Shape(<<"m">>, "COLOR", ValuesByMode(<<[key |-> "M2", value |-> v]>>)) : v \in ModeValues}
    \cup UNION {{Shape(<<"m">>, "COLOR",
                       ValuesByMode(<<[key |-> a, value |-> v], [key |-> b, value |-> w]>>)) :
                   b \in ModeIds \ {a}, v \in ModeValues, w \in ModeValues} : a \in ModeIds}

\* meta.variables: the variable at position i carries the id VarId(i)
WithIds(shapes) ==
    [i \in 1..Len(shapes) |->
        [id |-> VarId(i), name |-> shapes[i].name,
         variable_collection_id |-> shapes[i].variable_collection_id,
         resolved_type |-> shapes[i].resolved_type,
         values_by_mode |-> shapes[i].values_by_mode]]

\* responses: up to MaxVars variables that vary names and aliases, one variable
\* of another type, up to MaxModeVars variables that vary the modes
\* four variables of which the third collides with the first and the fourth
\* with the second, and three that normalize to one name
CollidingShapes ==
    {<<RedVariable(<<"c","/","p">>), RedVariable(<<"x"," "," ","y">>),
       RedVariable(<<"C",".","P">>), RedVariable(<<"x"," "," ","y">>)>>,
     <<RedVariable(<<"c","/","p">>), RedVariable(<<"C",".","P">>),
       RedVariable(<<"c","/","p">>)>>}

VariablesBodies ==
    {WithIds(sh) : sh \in SeqsUpTo(NameShapes(MaxVars), MaxVars)}
    \cup {WithIds(sh) : sh \in CollidingShapes}
    \cup {WithIds(<<sh>>) : sh \in TypeShapes}
    \cup {WithIds(sh) : sh \in SeqsUpTo(ModeShapes, MaxModeVars)}

Collection(id, defaultModeId) ==
    [id |-> id, default_mode_id |-> defaultModeId,
     modes |-> <<[mode_id |-> "M1", name |-> "Light"], [mode_id |-> "M2", name |-> "Dark"]>>]

\* meta.variableCollections: none, or collection C1 whose default mode is the
\* first or the second mode or one no variable has a value for
CollectionsBodies ==
    {<<>>} \cup {<<Collection("C1", d)>> : d \in {"M1", "M2", "M3"}}

OkResponse == HttpResponse(200, "", "", TRUE)

FailureResponses ==
    {HttpResponse(0, "", "", FALSE),
     HttpResponse(401, "", "", FALSE),
     HttpResponse(404, "", "", FALSE),
     HttpResponse(429, "", "", FALSE),
     HttpResponse(429, "30", "", FALSE),
     HttpResponse(500, "", "", FALSE),
     HttpResponse(500, "", "Internal error", FALSE),
     HttpResponse(200, "", "", FALSE)}

\* fetchVariables settles
VariablesSettle ==
    /\ varFetch.status = "pending"
    /\ \/ \E r \in FailureResponses : varFetch' = fetchVariables(r, <<>>)
       \/ \E body \in VariablesBodies : varFetch' = fetchVariables(OkResponse, body)
    /\ UNCHANGED <<call, suspended, importer, pc, colFetch, fileLoad, variables, collections,
                   flattenedTokens, idx, tokens, warnings, errors, thrown, consoleLog>>

\* fetchVariableCollections settles
CollectionsSettle ==
    /\ colFetch.status = "pending"
    /\ \/ \E r \in FailureResponses : colFetch' = fetchVariableCollections(r, <<>>)
       \/ \E body \in CollectionsBodies : colFetch' = fetchVariableCollections(OkResponse, body)
    /\ UNCHANGED <<call, suspended, importer, pc, varFetch, fileLoad, variables, collections,
                   flattenedTokens, idx, tokens, warnings, errors, thrown, consoleLog>>

-----------------------------------------------------------------------------
(* The file system: the documents loadDTCGFile can read *)

MaxRootEntries == 2    \* entries of the root object of a document

Str(s) == RawString(Chars(s))
Entry(key, value) == [key |-> Chars(key), value |-> value]
Token(type, value) == JsonObject(<<Entry("$type", Str(type)), Entry("$value", value)>>)

\* tokens: a colour, an unparseable colour, aliases to paths that a document
\* may or may not hold, a standalone typography property, a dimension, a
\* colour with a mode, and two tokens the validator refuses
Leaves ==
    {Token("color", Str("#F00")), Token("color", Str("red")),
     Token("color", Str("{a}")), Token("color", Str("{a.b}")), Token("color", Str("{zz}")),
     Token("fontWeight", Str("{a}")), Token("dimension", Str("4px")),
     JsonObject(<<Entry("$type", Str("color")), Entry("$value", Str("#00F")),
                  Entry("dark", JsonObject(<<Entry("$value", Str("{a}"))>>))>>),
     Token("bogus", Str("#F00")),
     JsonObject(<<Entry("$type", Str("color"))>>)}

\* groups: one child b (a colour or an alias), or the properties of a text style
Groups ==
    {JsonObject(<<[key |-> Chars("b"), value |-> leaf]>>) :
        leaf \in {Token("color", Str("#F00")), Token("color", Str("{a}")),
                  Token("color", Str("{zz}"))}}
    \cup {JsonObject(<<Entry("fontFamily", Token("fontFamily", Str("Inter"))),
                       Entry("fontSize", Token("dimension", size))>>) :
            size \in {Str("16px"), Str("big")}}

\* two dimensions named as properties of a text style
DimensionGroup ==
    JsonObject(<<Entry("fontFamily", Token("dimension", Str("4px"))),
                 Entry("fontSize", Token("dimension", Str("16px")))>>)

RootKeys == {Chars("a"), Chars("a.b"), Chars("T")}

RootEntries == {[key |-> k, value |-> v] : k \in RootKeys, v \in Leaves \cup Groups}

\* an object holds a key once
Documents ==
    {JsonObject(entries) : entries \in
        {es \in SeqsUpTo(RootEntries, MaxRootEntries) :
            \A i, j \in 1..Len(es) : es[i].key = es[j].key => i = j}}
    \cup {Str("tokens")}
    \cup {JsonObject(<<Entry("a", DimensionGroup)>>),
          JsonObject(<<Entry("a", DimensionGroup), Entry("T", Token("color", Str("#F00")))>>)}

FileReads ==
    {FileRead("ENOENT", "", <<>>),
     FileRead("SyntaxError", "Unexpected end of JSON input", <<>>),
     FileRead("EACCES", "permission denied", <<>>)}
    \cup {FileRead("", "", doc) : doc \in Documents}

\* loadDTCGFile settles
LoadSettle ==
    /\ fileLoad.status = "pending"
    /\ \E read \in FileReads : fileLoad' = loadDTCGFile(read)
    /\ UNCHANGED <<call, suspended, importer, pc, varFetch, colFetch, variables, collections,
                   flattenedTokens, idx, tokens, warnings, errors, thrown, consoleLog>>

-----------------------------------------------------------------------------
(* Callers of the exported functions: the arguments they are called with *)

MaxTokens == 3        \* tokens of a token set without modes
MaxModeTokens == 2    \* tokens of a token set with modes
MaxHexLen == 8        \* characters after the # of a colour string
MaxDepth == 2         \* depth of the nodes of a document given to validateDTCGFile

TokenNames == <<Chars("a"), Chars("b"), Chars("c"), Chars("d"), Chars("e")>>
FirstNames(n) == {TokenNames[i] : i \in 1..n}

\* a token as far as the validators read it
SetToken(value, modes) == [value |-> value, modes |-> modes]

\* a concrete value, an alias to a name a set may hold, to a name none holds,
\* or to a name none holds that Object.prototype has
PrimaryValues(n) ==
    {TokenValue(BooleanPayload(TRUE)), TokenAlias(Chars("zz")), TokenAlias(Chars("constructor"))}
    \cup {TokenAlias(name) : name \in FirstNames(n)}

ModeMaps ==
    {<<>>, <<[key |-> "dark", value |-> TokenAlias(Chars("a"))]>>,
     <<[key |-> "dark", value |-> TokenAlias(Chars("zz"))]>>}

\* the token sets of the first k names, k up to n, each with one of the values
\* and one of the mode maps.  Names are interchangeable, so the key order a,
\* b, ... with every assignment of values covers every order of the keys.
TokenSetsOf(values, modeMaps, n) ==
    UNION {{[i \in 1..k |-> [key |-> TokenNames[i], value |-> SetToken(f[i][1], f[i][2])]] :
                f \in [1..k -> values \X modeMaps]} : k \in 0..n}

TokenSets ==
    TokenSetsOf(PrimaryValues(MaxTokens), {<<>>}, MaxTokens)
    \cup TokenSetsOf(PrimaryValues(MaxModeTokens) \ {TokenAlias(Chars("constructor"))},
                     ModeMaps, MaxModeTokens)

\* colour strings: # and up to MaxHexLen characters of which G is no hex
\* digit; rgb( and rgba( with channels in and out of 0..255, with and without
\* an alpha; and strings of no supported format
HexStrings == {<<"#">> \o s : s \in SeqsUpTo({"0", "F", "G"}, MaxHexLen)}
Channels == {Chars("0"), Chars("255"), Chars("300"), Chars("25.5"), Chars("x")}
Alphas == {Chars(""), Chars(", 0.5"), Chars(", 1"), Chars(", 1.5"), Chars(", ."), Chars(",2")}
RgbStrings ==
    {Chars("rgb(") \o r \o Chars(", ") \o g \o Chars(",") \o b \o Chars(")") :
        r \in Channels, g \in Channels, b \in Channels}
RgbaStrings ==
    {Chars("rgba(") \o r \o Chars(", ") \o g \o Chars(",") \o Chars("51") \o a \o Chars(")") :
        r \in Channels, g \in Channels, a \in Alphas}
ColorStrings ==
    HexStrings \cup RgbStrings \cup RgbaStrings
    \cup {Chars(""), Chars("invalid"), Chars("RGB(1, 2, 3)"), Chars("F00")}

\* documents with a group t of typography properties, at the root or in a
\* group a, alone or after a colour token c
Without == <<>>
Child(key, choices) == {Without} \cup {<<Entry(key, token)>> : token \in choices}
PropertyGroups ==
    {JsonObject(family \o size \o weight \o other) :
        family \in Child("fontFamily", {Token("fontFamily", Str("Inter")),
                                        Token("dimension", Str("4px"))}),
        size \in Child("fontSize", {Token("dimension", Str("16px")),
                                    Token("fontSize", Str("16px")),
                                    Token("dimension", Str("big")),
                                    Token("dimension", Str("{c}"))}),
        weight \in Child("fontWeight", {Token("fontWeight", Str("400"))}),
        other \in Child("x", {Token("color", Str("#F00"))})}
TypographyDocuments ==
    {JsonObject(before \o <<Entry("t", group)>>) :
        before \in Child("c", {Token("color", Str("#F00"))}), group \in PropertyGroups}
    \cup {JsonObject(<<Entry("a", JsonObject(<<Entry("t", group)>>))>>) :
            group \in PropertyGroups}

\* nodes with or without $type (a valid one, an unknown one, a number), with
\* or without $value, with or without a child b that is such a node
TypeChoices == {Without, <<Entry("$type", Str("color"))>>, <<Entry("$type", Str("bogus"))>>,
                <<Entry("$type", RawNumber(5))>>}
ValueChoices == {Without, <<Entry("$value", Str("#F00"))>>}
RECURSIVE NodesOfDepth(_)
NodesOfDepth(d) ==
    {JsonObject(type \o value \o child) :
        type \in TypeChoices, value \in ValueChoices,
        child \in IF d = 1 THEN {Without}
                  ELSE {Without} \cup {<<Entry("b", node)>> : node \in NodesOfDepth(d - 1)}}
NodeDocuments ==
    {JsonObject(<<Entry("a", node)>>) : node \in NodesOfDepth(MaxDepth)}
    \cup {JsonObject(<<Entry("a", Token("color", Str("#F00"))), Entry("c", node)>>) :
            node \in NodesOfDepth(1)}
    \cup {Str("tokens"), JsonObject(<<Entry("$schema", RawNumber(1))>>)}

\* documents in which a token, or a group of a token the validator refuses, is
\* held under a key that starts with $, at the root or in a group g
MetadataKeys == {"$extensions", "$description", "$meta"}
MetadataContents ==
    {Token("color", Str("#F00")),
     JsonObject(<<Entry("x", JsonObject(<<Entry("$type", Str("bogus"))>>))>>),
     JsonObject(<<Entry("x", Token("color", Str("#F00")))>>)}
MetadataDocuments ==
    {JsonObject(<<Entry(key, content)>>) : key \in MetadataKeys, content \in MetadataContents}
    \cup {JsonObject(<<Entry("g", JsonObject(<<Entry(key, content)>>))>>) :
            key \in MetadataKeys, content \in MetadataContents}

MaxDimension == 120    \* largest magnitude of the run of integers given to parseDimension

\* String(n) for an integer
StringOfInt(n) == IF n < 0 THEN <<"-">> \o StringOfNat(0 - n) ELSE StringOfNat(n)

\* every integer up to MaxDimension in magnitude, and integers of six and seven
\* digits up to a million
DimensionIntegers ==
    ((0 - MaxDimension)..MaxDimension)
    \cup {1000000, 999999, 123456, 100000, -100000, -123456, -999999, -1000000}

\* each unit in lower case, in upper case and capitalized
UnitSpellings ==
    {Chars("px"), Chars("PX"), Chars("Px"), Chars("rem"), Chars("REM"), Chars("Rem"),
     Chars("em"), Chars("EM"), Chars("Em"), Chars("pt"), Chars("PT"), Chars("Pt")}

\* an integer followed by a unit, and strings that are not of that shape
DimensionStrings ==
    {StringOfInt(n) \o u : n \in DimensionIntegers, u \in UnitSpellings}
    \cup {Chars(""), Chars("16"), Chars("px"), Chars("-px"), Chars("1.5rem"), Chars("16 px"),
          Chars("007pt"), Chars("+4px"), Chars("4.px"), Chars("16vh"), Chars("--4px")}

NoCall == [fn |-> "none", arg |-> <<>>, done |-> FALSE, result |-> <<>>]
Call(fn, arg) == [fn |-> fn, arg |-> arg, done |-> FALSE, result |-> <<>>]

Calls ==
    {Call("parseColor", s) : s \in ColorStrings}
    \cup {Call("validateAliasReferences", ts) : ts \in TokenSets}
    \cup {Call("detectCircularReferences", ts) : ts \in TokenSets}
    \cup {Call("flattenDTCGTokens", doc) : doc \in TypographyDocuments \cup MetadataDocuments}
    \cup {Call("validateDTCGFile", doc) : doc \in NodeDocuments \cup MetadataDocuments}
    \cup {Call("parseDimension", s) : s \in DimensionStrings}

\* the state of an importer, which a call of an exported function leaves alone
importerVars == <<importer, pc, varFetch, colFetch, fileLoad, variables, collections,
                  flattenedTokens, idx, tokens, warnings, errors, thrown, consoleLog,
                  suspended>>

\* the function is called and has not returned
IsCalled(fn) == call.fn = fn /\ ~call.done

\* the call once it has returned the result (or thrown)
Returned(result) == [call EXCEPT !.done = TRUE, !.result = result]

\* the token set without the token of a name
RemoveToken(tokenSet, name) == SelectSeq(tokenSet, LAMBDA entry : entry.key # name)

CallParseColor ==
    /\ IsCalled("parseColor")
    /\ call' = Returned(parseColor(call.arg))
    /\ UNCHANGED importerVars

\* validateAliasReferences(tokenSet), and for every token of the set what it
\* returns once that token is deleted from tokenSet.tokens
CallValidateAliasReferences ==
    /\ IsCalled("validateAliasReferences")
    /\ call' = Returned([whole |-> validateAliasReferences(call.arg),
                         without |-> [i \in 1..Len(call.arg) |->
                            validateAliasReferences(RemoveToken(call.arg, call.arg[i].key))]])
    /\ UNCHANGED importerVars

CallDetectCircularReferences ==
    /\ IsCalled("detectCircularReferences")
    /\ call' = Returned(detectCircularReferences(call.arg))
    /\ UNCHANGED importerVars

CallFlattenDTCGTokens ==
    /\ IsCalled("flattenDTCGTokens")
    /\ call' = Returned(flattenDTCGTokens(call.arg))
    /\ UNCHANGED importerVars

CallValidateDTCGFile ==
    /\ IsCalled("validateDTCGFile")
    /\ call' = Returned(validateDTCGFile(call.arg))
    /\ UNCHANGED importerVars

-----------------------------------------------------------------------------

Init ==
    /\ importer \in {"figma", "dtcg"}
    /\ pc = "idle"
    /\ varFetch = Idle
    /\ colFetch = Idle
    /\ fileLoad = Idle
    /\ variables = <<>>
    /\ collections = <<>>
    /\ flattenedTokens = <<>>
    /\ idx = 0
    /\ tokens = <<>>
    /\ warnings = <<>>
    /\ errors = <<>>
    /\ thrown = <<>>
    /\ consoleLog = <<>>
    /\ call = NoCall
    /\ suspended = NotCalled("none")

Next ==
    \/ IngestStart
    \/ VariablesSettle
    \/ CollectionsSettle
    \/ AwaitSettled
    \/ NormalizeNextVariable
    \/ IngestReturn
    \/ DTCGIngestStart
    \/ LoadSettle
    \/ AwaitLoad
    \/ NormalizeNextToken
    \/ DTCGIngestReturn

Spec == Init /\ [][Next]_vars

CallParseDimension ==
    /\ IsCalled("parseDimension")
    /\ call' = Returned(parseDimension(call.arg))
    /\ UNCHANGED importerVars

\* a caller of one exported function: no importer is constructed
FunctionsInit ==
    /\ importer = "none"
    /\ pc = "idle"
    /\ varFetch = Idle
    /\ colFetch = Idle
    /\ fileLoad = Idle
    /\ variables = <<>>
    /\ collections = <<>>
    /\ flattenedTokens = <<>>
    /\ idx = 0
    /\ tokens = <<>>
    /\ warnings = <<>>
    /\ errors = <<>>
    /\ thrown = <<>>
    /\ consoleLog = <<>>
    /\ call \in Calls
    /\ suspended = NotCalled("none")

FunctionsNext ==
    \/ CallParseColor
    \/ CallValidateAliasReferences
    \/ CallDetectCircularReferences
    \/ CallFlattenDTCGTokens
    \/ CallValidateDTCGFile
    \/ CallParseDimension

FunctionsSpec == FunctionsInit /\ [][FunctionsNext]_vars

-----------------------------------------------------------------------------
(* Properties of FigmaImporter.ingest and DTCGImporter.ingest *)

IsSettled(promise) == promise.status \in {"fulfilled", "rejected"}

\* what normalizeVariable returns for variable i with the tables ingest built
VariableOutcome(i) ==
    normalizeVariable(variables[i], VariableIdToName(variables), ModeIdToName(collections),
                      CollectionDefaultModeId(collections, variables[i].variable_collection_id))

\* what normalizeDTCGToken returns for entry i of the flattened map
TokenOutcome(i) ==
    normalizeDTCGToken(flattenedTokens[i].key, flattenedTokens[i].value, flattenedTokens)

\* variable i yields a token and no later variable yields one of the same name
IsLastOfItsName(i) ==
    /\ VariableOutcome(i).outcome = "token"
    /\ \A j \in (i + 1)..Len(variables) :
          VariableOutcome(j).outcome = "token" =>
              VariableOutcome(j).token.name # VariableOutcome(i).token.name

\* C1: once the variables retrieval has failed, ingest waits for the collections
\* retrieval to settle and then rejects with the message "Figma import failed:
\* <reason>" and without a token, whether the collections retrieval succeeded
\* or failed.
C1_VariablesFailureIsFatal ==
    (importer = "figma" /\ varFetch.status = "rejected") =>
        /\ pc \in {"awaiting", "rejected"}
        /\ (pc = "awaiting" /\ IsSettled(colFetch)) => ENABLED AwaitSettled
        /\ pc = "rejected" =>
              /\ thrown = <<"Figma import failed: ", varFetch.reason>>
              /\ tokens = <<>>

C1_Witness ==
    /\ importer = "figma"
    /\ pc = "rejected"
    /\ varFetch.status = "rejected"
    /\ colFetch.status = "fulfilled"
    /\ colFetch.value # <<>>

\* C2: when the variables retrieval succeeded and the collections retrieval
\* failed, ingest does not reject: its first warning is "Failed to fetch
\* variable collections: <reason>. Continuing with mode IDs instead of names.",
\* it goes on to normalize the variables, and when it has fulfilled every
\* variable that normalizes with empty collection tables has its token in the
\* token set (the last one of a name under that name).
C2_CollectionsFailureIsAWarning ==
    (importer = "figma" /\ varFetch.status = "fulfilled" /\ colFetch.status = "rejected") =>
        /\ pc # "rejected"
        /\ pc = "awaiting" => ENABLED AwaitSettled
        /\ pc \in {"normalizing", "fulfilled"} =>
              /\ warnings # <<>>
              /\ warnings[1].kind = "collections-failed"
              /\ warnings[1].text =
                    <<"Failed to fetch variable collections: ", colFetch.reason,
                      ". Continuing with mode IDs instead of names.">>
              /\ variables = varFetch.value
              /\ collections = <<>>
        /\ pc = "fulfilled" =>
              /\ \A i \in 1..Len(variables) :
                    IsLastOfItsName(i) =>
                        /\ HasKey(tokens, VariableOutcome(i).token.name)
                        /\ Get(tokens, VariableOutcome(i).token.name) = VariableOutcome(i).token
              /\ \A k \in 1..Len(tokens) :
                    \E i \in 1..Len(variables) :
                        IsLastOfItsName(i) /\ tokens[k].value = VariableOutcome(i).token

C2_Witness ==
    /\ importer = "figma"
    /\ pc = "fulfilled"
    /\ colFetch.status = "rejected"
    /\ \E k \in 1..Len(tokens) : tokens[k].value.modes # <<>>

\* C3: both retrievals are started before ingest waits; each one still pending
\* can settle whatever became of the other; and ingest has decided (it is
\* normalizing, has fulfilled or has rejected) only when both have settled,
\* which it then always can.
C3_RetrievalsAreIndependent ==
    importer = "figma" =>
        /\ pc # "idle" => (varFetch.status # "idle" /\ colFetch.status # "idle")
        /\ varFetch.status = "pending" => ENABLED VariablesSettle
        /\ colFetch.status = "pending" => ENABLED CollectionsSettle
        /\ pc \in {"normalizing", "fulfilled", "rejected"} =>
              (IsSettled(varFetch) /\ IsSettled(colFetch))
        /\ (pc = "awaiting" /\ IsSettled(varFetch) /\ IsSettled(colFetch)) =>
              ENABLED AwaitSettled

C3_Witness ==
    /\ importer = "figma"
    /\ pc = "rejected"
    /\ varFetch.status = "rejected"
    /\ colFetch.status = "rejected"

SourceOf(token) ==
    CHOOSE i \in 1..Len(variables) : variables[i].id = token.metadata.sourceId

\* the collision warnings about a token name
CollisionWarnings(name) ==
    {w \in 1..Len(warnings) :
        warnings[w].kind = "collision" /\ warnings[w].tokenName = name}

\* every token of a document with its dot-joined path, in document order,
\* whether or not another token of the document has the same path
RECURSIVE DocumentSources(_, _, _, _)
DocumentSources(entries, i, currentPath, skipped) ==
    IF i > Len(entries) THEN <<>>
    ELSE (IF entries[i].key \in skipped \/ ~IsObject(entries[i].value) THEN <<>>
          ELSE IF HasStringProperty(entries[i].value, Chars("$type"))
          THEN <<[key |-> JoinPath(currentPath, entries[i].key), value |-> entries[i].value]>>
          ELSE DocumentSources(entries[i].value.o, 1,
                               JoinPath(currentPath, entries[i].key), ReservedKeys))
         \o DocumentSources(entries, i + 1, currentPath, skipped)

SourcesOfFile == DocumentSources(fileLoad.value.o, 1, <<>>, {Chars("$schema")})

\* source i of the loaded document normalizes to a token
SourceYieldsToken(i) ==
    normalizeDTCGToken(SourcesOfFile[i].key, SourcesOfFile[i].value,
                       flattenedTokens).outcome = "token"

\* sources i and j of the loaded document, and no third one, normalize to
\* tokens of one name
OnlyTwoSourcesOfAName(i, j) ==
    /\ i < j
    /\ SourcesOfFile[i].key = SourcesOfFile[j].key
    /\ SourceYieldsToken(i) /\ SourceYieldsToken(j)
    /\ \A k \in 1..Len(SourcesOfFile) :
          SourcesOfFile[k].key = SourcesOfFile[i].key => k \in {i, j}

\* variables i and j, and no third one, yield tokens of one name
OnlyTwoVariablesOfAName(i, j) ==
    /\ i < j
    /\ VariableOutcome(i).outcome = "token" /\ VariableOutcome(j).outcome = "token"
    /\ VariableOutcome(i).token.name = VariableOutcome(j).token.name
    /\ \A k \in 1..Len(variables) :
          (VariableOutcome(k).outcome = "token"
             /\ VariableOutcome(k).token.name = VariableOutcome(i).token.name) => k \in {i, j}

\* C5: when ingest has fulfilled and exactly two sources of its ordered input
\* normalize to tokens of the same name (two variables of the response, two
\* tokens of the document), the token set holds the later source's token
\* under that name and the warnings hold exactly one collision warning about
\* the name.
C5_LaterWinsWithOneWarning ==
    /\ (importer = "figma" /\ pc = "fulfilled") =>
          \A i, j \in 1..Len(variables) :
              OnlyTwoVariablesOfAName(i, j) =>
                  /\ HasKey(tokens, VariableOutcome(j).token.name)
                  /\ Get(tokens, VariableOutcome(j).token.name) = VariableOutcome(j).token
                  /\ Cardinality(CollisionWarnings(VariableOutcome(j).token.name)) = 1
    /\ (importer = "dtcg" /\ pc = "fulfilled") =>
          \A i, j \in 1..Len(SourcesOfFile) :
              OnlyTwoSourcesOfAName(i, j) =>
                  /\ HasKey(tokens, SourcesOfFile[j].key)
                  /\ Get(tokens, SourcesOfFile[j].key) =
                        normalizeDTCGToken(SourcesOfFile[j].key, SourcesOfFile[j].value,
                                           flattenedTokens).token
                  /\ Cardinality(CollisionWarnings(SourcesOfFile[j].key)) = 1

\* a document with two tokens of one path was imported: the later one is in
\* the token set and no warning tells of the earlier one
C5_Witness ==
    /\ importer = "dtcg"
    /\ pc = "fulfilled"
    /\ \E i, j \in 1..Len(SourcesOfFile) :
          /\ OnlyTwoSourcesOfAName(i, j)
          /\ SourcesOfFile[i].value # SourcesOfFile[j].value
          /\ HasKey(tokens, SourcesOfFile[j].key)
          /\ CollisionWarnings(SourcesOfFile[j].key) = {}

\* x occurs in s
IsSubstring(x, s) ==
    \E p \in 1..(Len(s) - Len(x) + 1) : SubSeq(s, p, p + Len(x) - 1) = x

\* the text of a collision warning of the variables importer holds the
\* characters of id: in one of the three places the template fills in, as the
\* fixed words of the template hold no variable id
Mentions(warning, id) ==
    \/ IsSubstring(id, warning.name)
    \/ IsSubstring(id, warning.id)
    \/ IsSubstring(id, warning.tokenName)

\* C6: every collision warning of the variables importer is about two
\* variables that yield tokens of the warning's name, an earlier and a later
\* one, and names the source IDs of both.
C6_WarningNamesBothSources ==
    importer = "figma" =>
        \A w \in 1..Len(warnings) :
            warnings[w].kind = "collision" =>
                \E i, j \in 1..Len(variables) :
                    /\ i < j
                    /\ VariableOutcome(i).outcome = "token"
                    /\ VariableOutcome(j).outcome = "token"
                    /\ VariableOutcome(i).token.name = warnings[w].tokenName
                    /\ VariableOutcome(j).token.name = warnings[w].tokenName
                    /\ Mentions(warnings[w], variables[i].id)
                    /\ Mentions(warnings[w], variables[j].id)

\* two variables collided and the warning names the later one only
C6_Witness ==
    /\ importer = "figma"
    /\ pc = "fulfilled"
    /\ \E w \in 1..Len(warnings) :
          /\ warnings[w].kind = "collision"
          /\ Mentions(warnings[w], VarId(2))
          /\ ~Mentions(warnings[w], VarId(1))
          /\ VariableOutcome(1).outcome = "token"
          /\ VariableOutcome(1).token.name = warnings[w].tokenName

\* the entry of values_by_mode the primary value of variable i comes from:
\* the one keyed by the default_mode_id of the variable's collection when
\* there is one, else the first
PrimaryEntry(i) ==
    IF \E c \in 1..Len(collections) :
          /\ collections[c].id = variables[i].variable_collection_id
          /\ HasKey(variables[i].values_by_mode.entries, collections[c].default_mode_id)
    THEN Get(variables[i].values_by_mode.entries,
             collections[CHOOSE c \in 1..Len(collections) :
                 /\ collections[c].id = variables[i].variable_collection_id
                 /\ HasKey(variables[i].values_by_mode.entries,
                           collections[c].default_mode_id)].default_mode_id)
    ELSE variables[i].values_by_mode.entries[1].value

\* C7: the primary value of every token in the token set is the normalized
\* value of its variable for the collection's default_mode_id when
\* values_by_mode has that key, and else of the first entry of values_by_mode.
C7_PrimaryValueIsDefaultMode ==
    importer = "figma" =>
        \A k \in 1..Len(tokens) :
            tokens[k].value.value =
                normalizeVariableValue(PrimaryEntry(SourceOf(tokens[k].value)),
                                       variables[SourceOf(tokens[k].value)].resolved_type,
                                       VariableIdToName(variables))

\* a token whose primary value is that of the second entry, the default mode,
\* and differs from the first entry's
C7_Witness ==
    /\ importer = "figma"
    /\ pc = "fulfilled"
    /\ \E k \in 1..Len(tokens) :
          /\ Len(variables[SourceOf(tokens[k].value)].values_by_mode.entries) = 2
          /\ PrimaryEntry(SourceOf(tokens[k].value)) =
                variables[SourceOf(tokens[k].value)].values_by_mode.entries[2].value
          /\ variables[SourceOf(tokens[k].value)].values_by_mode.entries[1].value = Value(Red)
          /\ tokens[k].value.value = TokenValue(parseColor(<<"#","0","0","F">>))

\* the key a mode has in modes: its name in the fetched collections, else its id
ExpectedModeKey(modeId) ==
    IF modeId \in DOMAIN ModeIdToName(collections)
    THEN ModeIdToName(collections)[modeId] ELSE modeId

\* the entries of values_by_mode of variable i other than the selected default
OtherModes(i) ==
    {e \in 1..Len(variables[i].values_by_mode.entries) :
        variables[i].values_by_mode.entries[e].key #
            SelectDefaultModeId(variables[i].values_by_mode.entries,
                                CollectionDefaultModeId(collections,
                                    variables[i].variable_collection_id))}

\* the normalized value of entry e of values_by_mode of variable i
ModeValueOf(i, e) ==
    normalizeVariableValue(variables[i].values_by_mode.entries[e].value,
                           variables[i].resolved_type, VariableIdToName(variables))

\* C8 as stated: every mode of a token's variable other than the selected
\* default is a key of the token's modes, by its human-readable name or, when
\* the collections have no name for it, by its raw mode ID.
C8_EveryOtherModeIsPresent ==
    importer = "figma" =>
        \A k \in 1..Len(tokens) :
            \A e \in OtherModes(SourceOf(tokens[k].value)) :
                HasKey(tokens[k].value.modes,
                       ExpectedModeKey(variables[SourceOf(tokens[k].value)]
                                           .values_by_mode.entries[e].key))

\* C8 amended: every mode other than the selected default whose value
\* normalizes is in the token's modes with that value, keyed by its
\* human-readable name or else its raw mode ID, and modes has no other key: a
\* mode whose value does not normalize is left out.
C8_NormalizedModesAreKeyedByName ==
    importer = "figma" =>
        \A k \in 1..Len(tokens) :
            /\ \A e \in OtherModes(SourceOf(tokens[k].value)) :
                  ModeValueOf(SourceOf(tokens[k].value), e) # NoValue =>
                      /\ HasKey(tokens[k].value.modes,
                                ExpectedModeKey(variables[SourceOf(tokens[k].value)]
                                                    .values_by_mode.entries[e].key))
                      /\ Get(tokens[k].value.modes,
                             ExpectedModeKey(variables[SourceOf(tokens[k].value)]
                                                 .values_by_mode.entries[e].key))
                            = ModeValueOf(SourceOf(tokens[k].value), e)
            /\ \A m \in 1..Len(tokens[k].value.modes) :
                  \E e \in OtherModes(SourceOf(tokens[k].value)) :
                      /\ ModeValueOf(SourceOf(tokens[k].value), e) # NoValue
                      /\ tokens[k].value.modes[m].key =
                            ExpectedModeKey(variables[SourceOf(tokens[k].value)]
                                                .values_by_mode.entries[e].key)

\* a token with its second mode under the name the collection gives it
C8_Witness ==
    /\ importer = "figma"
    /\ pc = "fulfilled"
    /\ colFetch.status = "fulfilled"
    /\ \E k \in 1..Len(tokens) :
          /\ HasKey(tokens[k].value.modes, "Dark")
          /\ Get(tokens[k].value.modes, "Dark") = TokenValue(parseColor(<<"#","0","0","F">>))

\* the value is an alias to a variable of the response
HasKnownTarget(value) ==
    /\ value.type = "ALIAS"
    /\ value.value.t = "string"
    /\ \E t \in 1..Len(variables) : variables[t].id = value.value.s

\* the alias the claim expects for it: to the normalized name of that variable
AliasToTarget(value) ==
    TokenAlias(normalizeVariableName(
        variables[CHOOSE t \in 1..Len(variables) : variables[t].id = value.value.s].name))

\* variable i is of a supported type and has values
HasValues(i) ==
    /\ mapFigmaTypeToTokenType(variables[i].resolved_type) # ""
    /\ ~variables[i].values_by_mode.null
    /\ variables[i].values_by_mode.entries # <<>>

\* C9: a variable of a supported type whose primary value is an alias to a
\* variable of the response yields a token with the value Alias{reference:
\* normalized name of the target}, and that token is in the returned set
\* (unless a later variable took its name); an alias to a variable of the
\* response in another mode is in modes as such an alias.  The target may be
\* any variable of the response: the aliasing one, an earlier or a later one.
C9_KnownAliasIsEmitted ==
    (importer = "figma" /\ pc = "fulfilled") =>
        \A i \in 1..Len(variables) :
            HasValues(i) =>
                /\ HasKnownTarget(PrimaryEntry(i)) =>
                      /\ VariableOutcome(i).outcome = "token"
                      /\ VariableOutcome(i).token.value = AliasToTarget(PrimaryEntry(i))
                      /\ IsLastOfItsName(i) =>
                            /\ HasKey(tokens, VariableOutcome(i).token.name)
                            /\ Get(tokens, VariableOutcome(i).token.name).value =
                                  AliasToTarget(PrimaryEntry(i))
                            /\ Get(tokens, VariableOutcome(i).token.name).metadata.sourceId =
                                  variables[i].id
                /\ \A e \in OtherModes(i) :
                      (/\ HasKnownTarget(variables[i].values_by_mode.entries[e].value)
                       /\ IsLastOfItsName(i)) =>
                          Get(Get(tokens, VariableOutcome(i).token.name).modes,
                              ExpectedModeKey(variables[i].values_by_mode.entries[e].key)) =
                              AliasToTarget(variables[i].values_by_mode.entries[e].value)

\* the first variable is an alias to the second, which comes after it, and its
\* token is in the set with the second one's normalized name
C9_Witness ==
    /\ importer = "figma"
    /\ pc = "fulfilled"
    /\ Len(variables) = 2
    /\ variables[1].name = <<"x"," "," ","y">>
    /\ variables[2].name = <<"C",".","P">>
    /\ HasValues(1)
    /\ HasKnownTarget(PrimaryEntry(1))
    /\ PrimaryEntry(1).value.s = VarId(2)
    /\ HasKey(tokens, <<"x","-","y">>)
    /\ Get(tokens, <<"x","-","y">>).value = TokenAlias(<<"c",".","p">>)

\* entry i of the flattened map has a $value of the form {name}
IsAliasToken(i) ==
    /\ HasStringProperty(flattenedTokens[i].value, Chars("$value"))
    /\ parseAliasReference(Property(flattenedTokens[i].value, Chars("$value")).s) # <<>>

\* the name between the braces
AliasName(i) == parseAliasReference(Property(flattenedTokens[i].value, Chars("$value")).s)

\* the $type of entry i is one normalizeDTCGToken maps to a token type
IsOfSupportedType(i) ==
    Property(flattenedTokens[i].value, Chars("$type")).s \in
        {Chars("color"), Chars("dimension"), Chars("borderRadius"), Chars("shadow")}

\* entry i gave no token and a warning about its path
SkippedWithWarning(i) ==
    /\ ~HasKey(tokens, flattenedTokens[i].key)
    /\ \E w \in 1..Len(warnings) :
          /\ warnings[w].kind \in {"unsupported-type", "invalid-value", "invalid-typography",
                                   "missing-type"}
          /\ warnings[w].path = flattenedTokens[i].key

\* C10 as stated: a flattened token whose $value is {name} is in the returned
\* set with the value Alias{reference: name} when name is a path of the
\* flattened map, and else is skipped with a warning.
C10_AliasTokenIsEmittedOrSkipped ==
    (importer = "dtcg" /\ pc = "fulfilled") =>
        \A i \in 1..Len(flattenedTokens) :
            IsAliasToken(i) =>
                IF HasKey(flattenedTokens, AliasName(i))
                THEN /\ HasKey(tokens, flattenedTokens[i].key)
                     /\ Get(tokens, flattenedTokens[i].key).value = TokenAlias(AliasName(i))
                ELSE SkippedWithWarning(i)

\* C10 amended: a flattened token of a supported type (color, dimension,
\* borderRadius, shadow) whose $value is {name} is in the returned set with
\* the value Alias{reference: name} when name is a path of the flattened map;
\* when name is not, or when the type is not supported, the token is skipped
\* and a warning about it is added.
C10_SupportedAliasTokenIsEmittedOrSkipped ==
    (importer = "dtcg" /\ pc = "fulfilled") =>
        \A i \in 1..Len(flattenedTokens) :
            IsAliasToken(i) =>
                IF HasKey(flattenedTokens, AliasName(i)) /\ IsOfSupportedType(i)
                THEN /\ HasKey(tokens, flattenedTokens[i].key)
                     /\ Get(tokens, flattenedTokens[i].key).value = TokenAlias(AliasName(i))
                ELSE SkippedWithWarning(i)

\* one token is an alias to another token of the document and a second one to
\* a path the document does not hold: the first is in the set, the second not
C10_Witness ==
    /\ importer = "dtcg"
    /\ pc = "fulfilled"
    /\ \E i, j \in 1..Len(flattenedTokens) :
          /\ IsAliasToken(i) /\ AliasName(i) # flattenedTokens[i].key
          /\ HasKey(tokens, flattenedTokens[i].key)
          /\ Get(tokens, flattenedTokens[i].key).value = TokenAlias(AliasName(i))
          /\ IsAliasToken(j) /\ ~HasKey(flattenedTokens, AliasName(j))
          /\ SkippedWithWarning(j)

-----------------------------------------------------------------------------
(* Claims about the validators *)

IsReturned(fn) == call.fn = fn /\ call.done

\* the name reached from a token's name by following k primary-value aliases,
\* <<>> when the chain leaves the token set or ends in a concrete value
RECURSIVE Follow(_, _, _)
Follow(tokenSet, name, k) ==
    IF k = 0 THEN name
    ELSE IF HasKey(tokenSet, name) /\ Get(tokenSet, name).value.type = "alias"
    THEN Follow(tokenSet, Get(tokenSet, name).value.reference, k - 1)
    ELSE <<>>

\* the alias graph over primary values has a cycle
HasCycle(tokenSet) ==
    \E i, k \in 1..Len(tokenSet) : Follow(tokenSet, tokenSet[i].key, k) = tokenSet[i].key

\* some primary value references a name that is no key of the token set but a
\* property of Object.prototype
ReferencesAPrototypeProperty(tokenSet) ==
    \E i \in 1..Len(tokenSet) :
        /\ tokenSet[i].value.value.type = "alias"
        /\ tokenSet[i].value.value.reference \in ObjectPrototypeKeys
        /\ ~HasKey(tokenSet, tokenSet[i].value.value.reference)

\* C11: detectCircularReferences returns, and returns hasCircular = true
\* exactly when the alias graph over the primary values has a cycle.
C11_CircularIffCycle ==
    IsReturned("detectCircularReferences") =>
        /\ ~call.result.threw
        /\ call.result.hasCircular <=> HasCycle(call.arg)

\* an acyclic token set whose only fault is a dangling reference, on which the
\* call throws instead of returning
C11_Witness ==
    /\ IsReturned("detectCircularReferences")
    /\ ~HasCycle(call.arg)
    /\ ReferencesAPrototypeProperty(call.arg)
    /\ call.result.threw

\* the verdict is right on every token set the call returns from
CircularIffCycleWhenReturned ==
    (IsReturned("detectCircularReferences") /\ ~call.result.threw) =>
        (call.result.hasCircular <=> HasCycle(call.arg))

\* the call returns from every token set that references no such property
ReturnsUnlessPrototypeProperty ==
    (IsReturned("detectCircularReferences") /\ ~ReferencesAPrototypeProperty(call.arg)) =>
        ~call.result.threw

\* C12: every entry of the returned cycles is a list of token names that
\* closes on its first name and in which the primary value of each name is
\* an alias to the next.
C12_CyclesAreClosedAliasChains ==
    (IsReturned("detectCircularReferences") /\ ~call.result.threw) =>
        \A c \in 1..Len(call.result.cycles) :
            LET names == call.result.cycles[c]
            IN  /\ Len(names) >= 2
                /\ names[1] = names[Len(names)]
                /\ \A p \in 1..(Len(names) - 1) :
                        /\ HasKey(call.arg, names[p])
                        /\ Get(call.arg, names[p]).value = TokenAlias(names[p + 1])

\* a cycle of two tokens entered from a third is reported
C12_Witness ==
    /\ IsReturned("detectCircularReferences")
    /\ ~call.result.threw
    /\ Len(call.arg) = 3
    /\ call.arg[1].value.value.type = "alias"
    /\ \E c \in 1..Len(call.result.cycles) :
            /\ Len(call.result.cycles[c]) = 3
            /\ call.result.cycles[c][1] # call.result.cycles[c][2]
            /\ call.arg[1].key \notin {call.result.cycles[c][1], call.result.cycles[c][2]}
            /\ call.arg[1].value.value.reference = call.result.cycles[c][1]

\* the aliases of token i: of its primary value and of its mode values
ReferencesOf(tokenSet, i) ==
    (IF tokenSet[i].value.value.type = "alias"
     THEN {tokenSet[i].value.value.reference} ELSE {})
    \cup {tokenSet[i].value.modes[m].value.reference :
            m \in {n \in 1..Len(tokenSet[i].value.modes) :
                        tokenSet[i].value.modes[n].value.type = "alias"}}

AllAliasesReferenceKeys(tokenSet) ==
    \A i \in 1..Len(tokenSet) : \A name \in ReferencesOf(tokenSet, i) : HasKey(tokenSet, name)

IsReferenced(tokenSet, name) ==
    \E i \in 1..Len(tokenSet) : name \in ReferencesOf(tokenSet, i)

IsReferencedByAnother(tokenSet, name) ==
    \E i \in 1..Len(tokenSet) : tokenSet[i].key # name /\ name \in ReferencesOf(tokenSet, i)

\* C13 as stated: a token set whose aliases, of primary and of mode values,
\* all reference keys of the set is valid, and without any one of its
\* referenced tokens it is not valid.
C13_RemovingAReferencedTokenInvalidates ==
    (IsReturned("validateAliasReferences") /\ AllAliasesReferenceKeys(call.arg)) =>
        /\ call.result.whole.valid
        /\ \A i \in 1..Len(call.arg) :
                IsReferenced(call.arg, call.arg[i].key) => ~call.result.without[i].valid

\* C13 amended: a token set whose aliases, of primary and of mode values, all
\* reference keys of the set is valid, and without any one of its tokens
\* that another token references it is not valid.
C13_RemovingATokenAnotherReferencesInvalidates ==
    (IsReturned("validateAliasReferences") /\ AllAliasesReferenceKeys(call.arg)) =>
        /\ call.result.whole.valid
        /\ \A i \in 1..Len(call.arg) :
                IsReferencedByAnother(call.arg, call.arg[i].key) =>
                    ~call.result.without[i].valid

\* a valid set with a token that only a mode value of another token references
C13_Witness ==
    /\ IsReturned("validateAliasReferences")
    /\ AllAliasesReferenceKeys(call.arg)
    /\ call.result.whole.valid
    /\ \E i, j \in 1..Len(call.arg) :
            /\ i # j
            /\ call.arg[j].value.value.type = "value"
            /\ call.arg[j].value.modes # <<>>
            /\ call.arg[i].key \in ReferencesOf(call.arg, j)
            /\ call.arg[i].key \notin ReferencesOf(call.arg, i)
            /\ ~call.result.without[i].valid

-----------------------------------------------------------------------------
(* Claims about the emitted tokens *)

\* non-empty, no upper-case letter, no slash
IsNormalizedName(name) ==
    /\ name # <<>>
    /\ \A p \in 1..Len(name) : name[p] # "/" /\ ~\E u \in 1..26 : UpperChars[u] = name[p]

\* the name with every dot replaced by a hyphen
Hyphenated(name) == [p \in 1..Len(name) |-> IF name[p] = "." THEN "-" ELSE name[p]]

\* C14: every token of either importer has a name that is non-empty, all
\* lower case and dot-separated with no slash left.
C14_NamesAreNormalized ==
    \A i \in 1..Len(tokens) : IsNormalizedName(tokens[i].value.name)

\* a token of a document whose name has an upper-case letter
C14_Witness ==
    /\ importer = "dtcg"
    /\ \E i \in 1..Len(tokens) :
            /\ tokens[i].value.name = Chars("T")
            /\ HasKey(flattenedTokens, Chars("T"))

\* the names of the tokens of variables are normalized
VariableNamesAreNormalized ==
    importer = "figma" => \A i \in 1..Len(tokens) : IsNormalizedName(tokens[i].value.name)

\* C15: the id of every token of either importer is its name with every dot
\* replaced by a hyphen.
C15_IdIsHyphenatedName ==
    \A i \in 1..Len(tokens) : tokens[i].value.id = Hyphenated(tokens[i].value.name)

\* a token of a variable whose id is the variable's id and not made of its name
C15_Witness ==
    /\ importer = "figma"
    /\ \E i \in 1..Len(tokens) : \E v \in 1..Len(variables) :
            /\ tokens[i].value.id = variables[v].id
            /\ tokens[i].value.name = Chars("c.p")
            /\ tokens[i].value.id # Chars("c-p")

\* the id of a token of a document is its lower-cased name with every dot
\* replaced by a hyphen
DocumentIdIsLowerCasedHyphenatedName ==
    importer = "dtcg" =>
        \A i \in 1..Len(tokens) :
            tokens[i].value.id = ToLowerCase(Hyphenated(tokens[i].value.name))

-----------------------------------------------------------------------------
(* Claims about the colour parser *)

\* a number of [0, 1]
InUnitInterval(x) == ~x.nan /\ 0 <= x.num /\ x.num <= x.den

ChannelsOf(color) == {color.r, color.g, color.b, color.a}

\* C16: whenever parseColor returns a ColorValue, each of r, g, b and a lies
\* in [0, 1] and none is NaN.
C16_ChannelsAreInUnitInterval ==
    (IsReturned("parseColor") /\ call.result # Null) =>
        \A x \in ChannelsOf(call.result) : InUnitInterval(x)

\* #GGG is parsed to a ColorValue whose channels are NaN
C16_Witness ==
    /\ IsReturned("parseColor")
    /\ call.arg = Chars("#GGG")
    /\ call.result # Null
    /\ call.result.r.nan /\ call.result.g.nan /\ call.result.b.nan

\* a ColorValue with a channel above 1 that is no NaN
SomeChannelExceedsOne ==
    /\ IsReturned("parseColor")
    /\ call.result # Null
    /\ \E x \in ChannelsOf(call.result) : ~x.nan /\ x.num > x.den

\* a # string of 3, 6 or 8 hexadecimal digits is parsed to channels of [0, 1]
HexDigitsGiveUnitChannels ==
    (/\ IsReturned("parseColor")
     /\ call.arg \in HexStrings
     /\ Len(call.arg) \in {4, 7, 9}
     /\ \A p \in 2..Len(call.arg) : call.arg[p] # "G") =>
        call.result # Null /\ \A x \in ChannelsOf(call.result) : InUnitInterval(x)

-----------------------------------------------------------------------------
(* Claims about the flattener *)

\* the group t of a document of TypographyDocuments and its path; a document
\* without t has the empty group
TypographyPath(doc) == IF HasKey(doc.o, Chars("t")) THEN Chars("t") ELSE Chars("a.t")
TypographyGroup(doc) ==
    IF HasKey(doc.o, Chars("t")) THEN Get(doc.o, Chars("t"))
    ELSE IF HasKey(doc.o, Chars("a")) THEN Get(Get(doc.o, Chars("a")).o, Chars("t"))
    ELSE JsonObject(<<>>)

ChildKeys(group) == {group.o[i].key : i \in 1..Len(group.o)}

\* a fontFamily token whose value is a non-empty string
IsFontFamilyToken(node) ==
    /\ Property(node, Chars("$type")) = Str("fontFamily")
    /\ Property(node, Chars("$value")).t = "string"
    /\ Property(node, Chars("$value")).s # <<>>

\* a fontSize token, of type fontSize or dimension, whose value is a dimension
IsFontSizeToken(node) ==
    /\ Property(node, Chars("$type")) \in {Str("fontSize"), Str("dimension")}
    /\ Property(node, Chars("$value")).t = "string"
    /\ parseDimension(Property(node, Chars("$value")).s) # Null

\* the children of the group are exactly a fontFamily and a fontSize token
\* with valid values
HasExactlyFamilyAndSize(group) ==
    /\ ChildKeys(group) = {Chars("fontFamily"), Chars("fontSize")}
    /\ IsFontFamilyToken(Get(group.o, Chars("fontFamily")))
    /\ IsFontSizeToken(Get(group.o, Chars("fontSize")))

\* the entries of the map at the path or below it
EntriesUnder(tokenMap, path) ==
    {i \in 1..Len(tokenMap) :
        tokenMap[i].key = path \/ StartsWith(tokenMap[i].key, path \o <<".">>)}

IsSynthetic(tokenMap, path) ==
    /\ HasKey(tokenMap, path)
    /\ Property(Get(tokenMap, path), Chars("$type")) = Str("typography")

\* C17: flattening a group whose children are exactly a fontFamily token and
\* a fontSize token with valid values yields one entry at the group's path,
\* of $type typography, and none for the two property tokens; a group without
\* fontFamily or without fontSize yields no typography entry.
C17_TypographyGroupIsComposed ==
    IsReturned("flattenDTCGTokens") =>
        /\ HasExactlyFamilyAndSize(TypographyGroup(call.arg)) =>
                /\ IsSynthetic(call.result, TypographyPath(call.arg))
                /\ Cardinality(EntriesUnder(call.result, TypographyPath(call.arg))) = 1
        /\ ~({Chars("fontFamily"), Chars("fontSize")} \subseteq ChildKeys(TypographyGroup(call.arg))) =>
                ~IsSynthetic(call.result, TypographyPath(call.arg))

\* a nested group of exactly the two tokens is flattened to its one entry
C17_Witness ==
    /\ IsReturned("flattenDTCGTokens")
    /\ TypographyPath(call.arg) = Chars("a.t")
    /\ HasExactlyFamilyAndSize(TypographyGroup(call.arg))
    /\ Len(call.result) = 1
    /\ IsSynthetic(call.result, Chars("a.t"))

\* a group with fontSize and without fontFamily keeps its tokens as they are
GroupWithoutFamilyIsNotComposed ==
    /\ IsReturned("flattenDTCGTokens")
    /\ ChildKeys(TypographyGroup(call.arg)) = {Chars("fontSize")}
    /\ ~HasKey(call.result, TypographyPath(call.arg))
    /\ HasKey(call.result, TypographyPath(call.arg) \o Chars(".fontSize"))

\* the leaf tokens of a document: the nodes with a string $type, with their
\* dotted paths, in document order
RECURSIVE LeavesOf(_, _)
RECURSIVE LeavesOfEntries(_, _, _)
LeavesOf(node, path) ==
    IF HasStringProperty(node, Chars("$type")) THEN <<[key |-> path, value |-> node]>>
    ELSE LeavesOfEntries(node.o, 1, path)
LeavesOfEntries(entries, i, path) ==
    IF i > Len(entries) THEN <<>>
    ELSE (IF ~StartsWith(entries[i].key, <<"$">>) /\ IsObject(entries[i].value)
          THEN LeavesOf(entries[i].value, JoinPath(path, entries[i].key)) ELSE <<>>)
         \o LeavesOfEntries(entries, i + 1, path)

\* the document ingest has read
Document == fileLoad.value

IsCurlyReference(s) == Len(s) >= 3 /\ s[1] = "{" /\ s[Len(s)] = "}"

\* the $value of the leaf is a string that parses as its $type
HasParseableValue(leaf) ==
    /\ Property(leaf, Chars("$value")).t = "string"
    /\ \/ /\ Property(leaf, Chars("$type")) = Str("color")
          /\ parseColor(Property(leaf, Chars("$value")).s) # Null
       \/ /\ Property(leaf, Chars("$type")) = Str("dimension")
          /\ parseDimension(Property(leaf, Chars("$value")).s) # Null

\* the $value of the leaf is {path} for the path of a leaf of the document
HasResolvableAlias(leaf, leaves) ==
    /\ Property(leaf, Chars("$value")).t = "string"
    /\ IsCurlyReference(Property(leaf, Chars("$value")).s)
    /\ HasKey(leaves, SubSeq(Property(leaf, Chars("$value")).s, 2,
                             Len(Property(leaf, Chars("$value")).s) - 1))

\* leaves are the leaf tokens of doc
AreColorsAndDimensions(doc, leaves) ==
    /\ IsObject(doc)
    /\ validateDTCGFile(doc) = <<>>
    /\ leaves # <<>>
    /\ \A i \in 1..Len(leaves) :
            Property(leaves[i].value, Chars("$type")) \in {Str("color"), Str("dimension")}

OnlyColorAndDimensionLeaves(doc) == AreColorsAndDimensions(doc, LeavesOf(doc, <<>>))

AreIndependent(doc, leaves) ==
    /\ \A i, j \in 1..Len(leaves) : leaves[i].key = leaves[j].key => i = j
    /\ \A i \in 1..Len(leaves) :
            HasParseableValue(leaves[i].value) \/ HasResolvableAlias(leaves[i].value, leaves)
    /\ \A e \in 1..Len(doc.o) :
            IsObject(doc.o[e].value) /\ ~HasStringProperty(doc.o[e].value, Chars("$type")) =>
                ~isTypographyGroup(doc.o[e].value)

\* the leaves have usable values and paths of their own, and none is taken
\* for a property of a text style
LeavesAreIndependent(doc) == AreIndependent(doc, LeavesOf(doc, <<>>))

DimensionsTakenForATextStyle ==
    /\ importer = "dtcg" /\ pc = "fulfilled"
    /\ OnlyColorAndDimensionLeaves(Document)
    /\ Len(LeavesOf(Document, <<>>)) = 2
    /\ \A i \in 1..2 : HasParseableValue(LeavesOf(Document, <<>>)[i].value)
    /\ tokens = <<>>

-----------------------------------------------------------------------------
(* Claims about validation *)

\* ingest has loaded a document and gone past its validation
IsPastValidation ==
    importer = "dtcg" /\ fileLoad.status = "fulfilled" /\ pc # "loading"

\* ingest rejected with these diagnostics before anything was flattened
IsRejectedWith(diagnostics) ==
    /\ pc = "rejected"
    /\ thrown = <<"DTCG import failed: ", <<"DTCG file validation failed: ", diagnostics>>>>
    /\ errors = diagnostics
    /\ flattenedTokens = <<>>
    /\ tokens = <<>>

InvalidIsRejectedWith(diagnostics) == diagnostics # <<>> => IsRejectedWith(diagnostics)

\* C19: when validateDTCGFile reports the loaded document not valid, ingest
\* rejects with "DTCG import failed: " followed by the message that carries
\* the validator's errors, and nothing is flattened or normalized.
C19_InvalidDocumentIsRejected ==
    IsPastValidation => InvalidIsRejectedWith(validateDTCGFile(Document))

\* a document with two diagnostics is rejected
C19_Witness ==
    /\ IsPastValidation
    /\ Len(validateDTCGFile(Document)) = 2
    /\ pc = "rejected"
    /\ thrown[1] = "DTCG import failed: "

\* every node of a document below the root, with its dotted path
RECURSIVE NodesAt(_, _)
RECURSIVE NodesOfEntries(_, _, _)
NodesAt(node, path) == <<[key |-> path, value |-> node]>> \o NodesOfEntries(node.o, 1, path)
NodesOfEntries(entries, i, path) ==
    IF i > Len(entries) THEN <<>>
    ELSE (IF ~StartsWith(entries[i].key, <<"$">>) /\ IsObject(entries[i].value)
          THEN NodesAt(entries[i].value, JoinPath(path, entries[i].key)) ELSE <<>>)
         \o NodesOfEntries(entries, i + 1, path)

\* a token node without $value, or whose $type is no string of the allowed set
IsFaultyToken(node) ==
    /\ HasKey(node.o, Chars("$type"))
    /\ \/ ~HasKey(node.o, Chars("$value"))
       \/ ~HasStringProperty(node, Chars("$type"))
       \/ Property(node, Chars("$type")).s \notin VALID_DTCG_TYPES

IsNamedIn(diagnostics, path) == \E d \in 1..Len(diagnostics) : diagnostics[d].path = path

\* C20: for every token node anywhere in the document that lacks $value or
\* whose $type is no string of the allowed set, the errors of validateDTCGFile
\* hold a diagnostic naming the node's dot-joined path, and valid is false.
C20_EveryFaultyTokenIsNamed ==
    (IsReturned("validateDTCGFile") /\ IsObject(call.arg)) =>
        \A n \in 1..Len(NodesOfEntries(call.arg.o, 1, <<>>)) :
            IsFaultyToken(NodesOfEntries(call.arg.o, 1, <<>>)[n].value) =>
                /\ IsNamedIn(call.result, NodesOfEntries(call.arg.o, 1, <<>>)[n].key)
                /\ call.result # <<>>

\* a token without $value below a token whose $type is a number: only the
\* outer one is named
C20_Witness ==
    /\ IsReturned("validateDTCGFile")
    /\ IsObject(call.arg)
    /\ HasKey(call.arg.o, Chars("a"))
    /\ Property(Get(call.arg.o, Chars("a")), Chars("$type")).t = "number"
    /\ HasKey(Get(call.arg.o, Chars("a")).o, Chars("b"))
    /\ Property(Get(Get(call.arg.o, Chars("a")).o, Chars("b")), Chars("$type")) = Str("color")
    /\ ~HasKey(Get(Get(call.arg.o, Chars("a")).o, Chars("b")).o, Chars("$value"))
    /\ IsNamedIn(call.result, Chars("a"))
    /\ ~IsNamedIn(call.result, Chars("a.b"))

\* no node of the document has a $type that is no string
TypesAreStrings(doc) ==
    \A n \in 1..Len(NodesOfEntries(doc.o, 1, <<>>)) :
        HasKey(NodesOfEntries(doc.o, 1, <<>>)[n].value.o, Chars("$type")) =>
            HasStringProperty(NodesOfEntries(doc.o, 1, <<>>)[n].value, Chars("$type"))

\* in such a document every faulty token is named
EveryFaultyTokenIsNamedWhenTypesAreStrings ==
    (IsReturned("validateDTCGFile") /\ IsObject(call.arg) /\ TypesAreStrings(call.arg)) =>
        \A n \in 1..Len(NodesOfEntries(call.arg.o, 1, <<>>)) :
            IsFaultyToken(NodesOfEntries(call.arg.o, 1, <<>>)[n].value) =>
                IsNamedIn(call.result, NodesOfEntries(call.arg.o, 1, <<>>)[n].key)

\* whenever some token is faulty, valid is false
FaultyTokenMakesInvalid ==
    (IsReturned("validateDTCGFile") /\ IsObject(call.arg)) =>
        ((\E n \in 1..Len(NodesOfEntries(call.arg.o, 1, <<>>)) :
            IsFaultyToken(NodesOfEntries(call.arg.o, 1, <<>>)[n].value)) => call.result # <<>>)

-----------------------------------------------------------------------------
(* Claims about warnings and errors *)

\* some warning is about the variable of this id
IsWarnedAbout(id) ==
    \E w \in 1..Len(warnings) :
        /\ warnings[w].kind \in {"unsupported-type", "normalize-failed", "collision"}
        /\ warnings[w].id = id

\* some warning is about the token at this path
IsWarnedAboutPath(path) ==
    \E w \in 1..Len(warnings) :
        /\ warnings[w].kind \in {"missing-type", "invalid-typography", "unsupported-type",
                                 "invalid-value"}
        /\ warnings[w].path = path

\* C21: every variable and every flattened token that ingest skipped for a
\* soft failure (unsupported type, unknown alias target, value that does not
\* parse) has an entry in the returned warnings.
C21_SoftFailureIsWarned ==
    /\ (importer = "figma" /\ pc = "fulfilled") =>
          \A i \in 1..Len(variables) :
              (/\ mapFigmaTypeToTokenType(variables[i].resolved_type) = "" \/ HasValues(i)
               /\ VariableOutcome(i).outcome # "token") =>
                  IsWarnedAbout(variables[i].id)
    /\ (importer = "dtcg" /\ pc = "fulfilled") =>
          \A i \in 1..Len(flattenedTokens) :
              TokenOutcome(i).outcome # "token" => IsWarnedAboutPath(flattenedTokens[i].key)

\* a colour variable whose value is no colour is skipped without any warning
C21_Witness ==
    /\ importer = "figma"
    /\ pc = "fulfilled"
    /\ Len(variables) = 1
    /\ variables[1].resolved_type = "COLOR"
    /\ HasValues(1)
    /\ PrimaryEntry(1) = Value(NotAColor)
    /\ tokens = <<>>
    /\ warnings = <<>>

\* an alias to a variable that is not in the response is skipped without any
\* warning about it
UnknownAliasIsNotWarned ==
    /\ importer = "figma"
    /\ pc = "fulfilled"
    /\ \E i \in 1..Len(variables) :
          /\ HasValues(i)
          /\ PrimaryEntry(i) = Alias(UnknownVarId)
          /\ ~IsWarnedAbout(variables[i].id)

\* the tokens of a document that are skipped are all warned about
SkippedTokenIsWarned ==
    (importer = "dtcg" /\ pc = "fulfilled") =>
        \A i \in 1..Len(flattenedTokens) :
            TokenOutcome(i).outcome # "token" => IsWarnedAboutPath(flattenedTokens[i].key)

\* a variable of an unsupported type is warned about
UnsupportedVariableIsWarned ==
    (importer = "figma" /\ pc = "fulfilled") =>
        \A i \in 1..Len(variables) :
            mapFigmaTypeToTokenType(variables[i].resolved_type) = "" =>
                IsWarnedAbout(variables[i].id)

\* a token value that carries a number which is not finite
IsNonFinite(v) == v.type = "value" /\ v.value.k = "number" /\ v.value.v.nan

\* C22: no token and no mode entry of a token of a variables response carries a number that is not
\* finite; a FLOAT value whose cast to number is not finite is skipped
C22_NoNonFiniteNumber ==
    importer = "figma" =>
        \A k \in 1..Len(tokens) :
            /\ ~IsNonFinite(tokens[k].value.value)
            /\ \A m \in 1..Len(tokens[k].value.modes) :
                  ~IsNonFinite(tokens[k].value.modes[m].value)

\* ingest has fulfilled for a FLOAT variable whose value is the string "abc",
\* and the token set holds a token for it
C22_Witness ==
    /\ importer = "figma"
    /\ pc = "fulfilled"
    /\ \E i \in 1..Len(variables) :
          /\ variables[i].resolved_type = "FLOAT"
          /\ HasValues(i)
          /\ PrimaryEntry(i) = Value(RawString(<<"a","b","c">>))
          /\ HasKey(tokens, normalizeVariableName(variables[i].name))
          /\ Get(tokens, normalizeVariableName(variables[i].name)).value
                = TokenValue(NumberPayload(NaN))

\* a FLOAT value that is a numeric string is cast to its number
NumericStringIsCast ==
    (importer = "figma" /\ pc = "fulfilled") =>
        \A i \in 1..Len(variables) :
            (/\ variables[i].resolved_type = "FLOAT"
             /\ HasValues(i)
             /\ PrimaryEntry(i) = Value(RawString(<<"4","2">>))
             /\ IsLastOfItsName(i)) =>
                Get(tokens, normalizeVariableName(variables[i].name)).value
                    = TokenValue(NumberPayload(Num(42)))

-----------------------------------------------------------------------------
(* Two ingest calls in flight.  The variables of the importers are the locals
   of the call that is running and suspended holds those of the other call.
   A call runs until it awaits or settles, and only then does the other call
   run; the console is the one thing both write to. *)

\* the locals of the running call
Frame ==
    [importer |-> importer, pc |-> pc, varFetch |-> varFetch, colFetch |-> colFetch,
     fileLoad |-> fileLoad, variables |-> variables, collections |-> collections,
     flattenedTokens |-> flattenedTokens, idx |-> idx, tokens |-> tokens,
     warnings |-> warnings, errors |-> errors, thrown |-> thrown]

\* the same with one warnings array that every call appends to
SharedWarnings == warnings

\* the warnings array of the call that resumes: the one its ingest declared
ResumedWarnings == suspended.warnings

\* the running call awaits or has settled, and the other call runs
Switch ==
    /\ suspended.importer # "none"
    /\ pc \notin {"normalizing", "normalizingTokens"}
    /\ suspended' = Frame
    /\ importer' = suspended.importer
    /\ pc' = suspended.pc
    /\ varFetch' = suspended.varFetch
    /\ colFetch' = suspended.colFetch
    /\ fileLoad' = suspended.fileLoad
    /\ variables' = suspended.variables
    /\ collections' = suspended.collections
    /\ flattenedTokens' = suspended.flattenedTokens
    /\ idx' = suspended.idx
    /\ tokens' = suspended.tokens
    /\ warnings' = ResumedWarnings
    /\ errors' = suspended.errors
    /\ thrown' = suspended.thrown
    /\ UNCHANGED <<consoleLog, call>>

\* what the requests of the two calls settle with: a collision of names, a
\* type that is not supported, one good variable, and a failure of each request
ConcurrentVariables ==
    {Idle, Pending, fetchVariables(HttpResponse(404, "", "", FALSE), <<>>)}
    \cup {fetchVariables(OkResponse, WithIds(shapes)) : shapes \in
            {<<RedVariable(<<"c","/","p">>), RedVariable(<<"C",".","P">>)>>,
             <<Shape(<<"c","/","p">>, "UNKNOWN_TYPE",
                     ValuesByMode(<<[key |-> "M1", value |-> Value(Red)]>>))>>,
             <<RedVariable(<<"x"," "," ","y">>)>>}}

ConcurrentCollections ==
    {Idle, Pending, fetchVariableCollections(OkResponse, <<>>),
     fetchVariableCollections(HttpResponse(500, "", "", FALSE), <<>>)}

\* a missing file, a document that is not an object, a value that does not
\* parse, and a group of two dimensions beside a colour
ConcurrentFiles ==
    {Idle, Pending, loadDTCGFile(FileRead("ENOENT", "", <<>>))}
    \cup {loadDTCGFile(FileRead("", "", doc)) : doc \in
            {Str("tokens"),
             JsonObject(<<Entry("a", Token("color", Str("red")))>>),
             JsonObject(<<Entry("a", DimensionGroup),
                          Entry("T", Token("color", Str("#F00")))>>)}}

\* two importers are constructed and ingest is called on both
ConcurrentInit ==
    /\ importer \in {"figma", "dtcg"}
    /\ pc = "idle"
    /\ varFetch = Idle
    /\ colFetch = Idle
    /\ fileLoad = Idle
    /\ variables = <<>>
    /\ collections = <<>>
    /\ flattenedTokens = <<>>
    /\ idx = 0
    /\ tokens = <<>>
    /\ warnings = <<>>
    /\ errors = <<>>
    /\ thrown = <<>>
    /\ consoleLog = <<>>
    /\ call = NoCall
    /\ suspended \in {NotCalled("figma"), NotCalled("dtcg")}

\* the steps of the running call, its requests settling within the responses
\* above, and the hand-over to the other call
ConcurrentNext ==
    \/ IngestStart
    \/ VariablesSettle /\ varFetch' \in ConcurrentVariables
    \/ CollectionsSettle /\ colFetch' \in ConcurrentCollections
    \/ AwaitSettled
    \/ NormalizeNextVariable
    \/ IngestReturn
    \/ DTCGIngestStart
    \/ LoadSettle /\ fileLoad' \in ConcurrentFiles
    \/ AwaitLoad
    \/ NormalizeNextToken
    \/ DTCGIngestReturn
    \/ Switch

ConcurrentSpec == ConcurrentInit /\ [][ConcurrentNext]_vars

\* FigmaImporter.ingest run alone from variable i on: the tokens and warnings
\* of the loop of lines 104-132
RECURSIVE VariablesAlone(_, _, _, _, _)
VariablesAlone(vs, cs, i, toks, warns) ==
    IF i > Len(vs) THEN [tokens |-> toks, warnings |-> warns]
    ELSE LET r == normalizeVariable(vs[i], VariableIdToName(vs), ModeIdToName(cs),
                                    CollectionDefaultModeId(cs, vs[i].variable_collection_id))
         IN  VariablesAlone(vs, cs, i + 1,
                 IF r.outcome = "token" THEN Put(toks, r.token.name, r.token) ELSE toks,
                 warns \o r.warnings \o
                 (IF r.outcome = "token" /\ HasKey(toks, r.token.name)
                  THEN <<CollisionWarning(vs[i], vs[i].id, r.token)>>
                  ELSE IF r.outcome = "throw"
                  THEN <<NormalizeFailedWarning(vs[i], vs[i].id,
                             "Cannot convert undefined or null to object")>>
                  ELSE <<>>))

\* what FigmaImporter.ingest settles with when no other call is in flight
FigmaAlone(vf, cf) ==
    IF vf.status = "rejected"
    THEN [pc |-> "rejected", tokens |-> <<>>, warnings |-> <<>>, errors |-> <<vf.reason>>,
          thrown |-> FigmaImportFailed(vf.reason)]
    ELSE LET r == VariablesAlone(vf.value,
                      IF cf.status = "rejected" THEN <<>> ELSE cf.value, 1, <<>>,
                      IF cf.status = "rejected"
                      THEN <<CollectionsFailedWarning(cf.reason)>> ELSE <<>>)
         IN  [pc |-> "fulfilled", tokens |-> r.tokens, warnings |-> r.warnings,
              errors |-> <<>>, thrown |-> <<>>]

\* DTCGImporter.ingest run alone from entry i of the flattened map on
RECURSIVE TokensAlone(_, _, _, _)
TokensAlone(flat, i, toks, warns) ==
    IF i > Len(flat) THEN [tokens |-> toks, warnings |-> warns]
    ELSE LET r == normalizeDTCGToken(flat[i].key, flat[i].value, flat)
         IN  TokensAlone(flat, i + 1,
                 IF r.outcome = "token" THEN Put(toks, r.token.name, r.token) ELSE toks,
                 warns \o r.warnings \o
                 (IF r.outcome = "token" /\ HasKey(toks, r.token.name)
                  THEN <<DTCGCollisionWarning(r.token)>> ELSE <<>>))

\* what DTCGImporter.ingest settles with when no other call is in flight
DTCGAlone(fl) ==
    IF fl.status = "rejected"
    THEN [pc |-> "rejected", tokens |-> <<>>, warnings |-> <<>>,
          errors |-> <<<<"Failed to load DTCG file: ", fl.reason>>>>,
          thrown |-> DTCGImportFailed(fl.reason)]
    ELSE IF validateDTCGFile(fl.value) # <<>>
    THEN [pc |-> "rejected", tokens |-> <<>>, warnings |-> <<>>,
          errors |-> validateDTCGFile(fl.value),
          thrown |-> DTCGImportFailed(<<"DTCG file validation failed: ",
                                        validateDTCGFile(fl.value)>>)]
    ELSE LET r == TokensAlone(flattenDTCGTokens(fl.value), 1, <<>>, <<>>)
         IN  [pc |-> "fulfilled", tokens |-> r.tokens, warnings |-> r.warnings,
              errors |-> <<>>, thrown |-> <<>>]

\* what a settled call returned or rejected with
Settlement(f) ==
    [pc |-> f.pc, tokens |-> f.tokens, warnings |-> f.warnings, errors |-> f.errors,
     thrown |-> f.thrown]

IsSettledCall(f) == f.importer # "none" /\ f.pc \in {"fulfilled", "rejected"}

ReturnsWhatItWouldAlone(f) ==
    IsSettledCall(f) =>
        Settlement(f) = IF f.importer = "figma" THEN FigmaAlone(f.varFetch, f.colFetch)
                        ELSE DTCGAlone(f.fileLoad)

\* C23: of two ingest calls in flight, of the same or of different importers,
\* each settles with what it would settle with when run alone on what its
\* requests returned: the calls share no state
C23_ConcurrentCallsDoNotInterfere ==
    /\ ReturnsWhatItWouldAlone(Frame)
    /\ ReturnsWhatItWouldAlone(suspended)

\* both calls have fulfilled, each with warnings of its own
C23_Witness ==
    /\ importer = "dtcg"
    /\ pc = "fulfilled"
    /\ warnings # <<>>
    /\ suspended.importer = "figma"
    /\ suspended.pc = "fulfilled"
    /\ suspended.warnings # <<>>
    /\ suspended.warnings # warnings
    /\ consoleLog # <<>>

-----------------------------------------------------------------------------
(* Claims about parseDimension *)

EndsWith(s, suffix) ==
    Len(s) >= Len(suffix) /\ SubSeq(s, Len(s) - Len(suffix) + 1, Len(s)) = suffix

\* C24: for an integer n of at most a million in magnitude and a unit u of px,
\* rem, em and pt, in any of its spellings, parseDimension of n followed by u
\* returns the value n with the unit in lower case
C24_IntegerDimensionIsParsed ==
    (call.fn = "parseDimension" /\ call.done) =>
        \A u \in UnitSpellings :
            EndsWith(call.arg, u) =>
                \A n \in DimensionIntegers :
                    call.arg = StringOfInt(n) \o u =>
                        /\ call.result # Null
                        /\ NumEq(call.result.value, Num(n))
                        /\ call.result.unit = ToLowerCase(u)

\* parseDimension("-1000000Rem") has returned { value: -1000000, unit: "rem" }
C24_Witness ==
    /\ call.fn = "parseDimension"
    /\ call.done
    /\ call.arg = Chars("-1000000Rem")
    /\ call.result = DimensionValue(Num(0 - 1000000), Chars("rem"))

\* a string that is not a number followed by a unit gives null
OtherStringsAreNotDimensions ==
    (call.fn = "parseDimension" /\ call.done
        /\ call.arg \in {Chars(""), Chars("16"), Chars("px"), Chars("-px"), Chars("16 px"),
                         Chars("+4px"), Chars("4.px"), Chars("16vh"), Chars("--4px")}) =>
            call.result = Null

-----------------------------------------------------------------------------
(* Claims about the order of the warnings *)

\* the position in the ordered input of the source a warning is about: the
\* variable of its id, the flattened token of its path; 0 for a warning that
\* is about no source
PositionOf(warning) ==
    IF importer = "figma"
    THEN IF warning.kind \in {"unsupported-type", "normalize-failed", "collision"}
         THEN CHOOSE i \in 1..Len(variables) : variables[i].id = warning.id
         ELSE 0
    ELSE IF warning.kind \in {"missing-type", "invalid-typography", "unsupported-type",
                              "invalid-value"}
         THEN CHOOSE i \in 1..Len(flattenedTokens) : flattenedTokens[i].key = warning.path
         ELSE 0

\* C25: the warnings are in the order of the sources that produced them, the
\* warning about the collections before all others, and the collision warnings
\* of the variables importer are in the order of the later variable of each
\* collision
C25_WarningsFollowInputOrder ==
    \A v, w \in 1..Len(warnings) :
        v < w =>
            /\ PositionOf(warnings[v]) <= PositionOf(warnings[w])
            /\ (warnings[v].kind = "collision" /\ warnings[w].kind = "collision") =>
                  PositionOf(warnings[v]) < PositionOf(warnings[w])

\* four variables were imported, the third collided with the first and the
\* fourth with the second, and the two warnings are in that order after the
\* warning about the collections
C25_Witness ==
    /\ importer = "figma"
    /\ pc = "fulfilled"
    /\ Len(variables) = 4
    /\ Len(warnings) = 3
    /\ warnings[1].kind = "collections-failed"
    /\ warnings[2].kind = "collision"
    /\ warnings[2].id = VarId(3)
    /\ warnings[3].kind = "collision"
    /\ warnings[3].id = VarId(4)

IsPrefix(s, t) == Len(s) <= Len(t) /\ SubSeq(t, 1, Len(s)) = s

\* a warning once added stays where it is: every step only appends
WarningsOnlyGrow == [][IsPrefix(warnings, warnings')]_vars

-----------------------------------------------------------------------------
(* Claims about keys that start with $ *)

\* a segment of the dot-joined path starts with $
HasMetadataSegment(path) ==
    \E i \in 1..Len(path) : path[i] = "$" /\ (i = 1 \/ path[i - 1] = ".")

\* C26: validateDTCGFile reports nothing about a node below a key that starts
\* with $, and flattenDTCGTokens returns no token of a path through such a key
C26_MetadataIsNotDescended ==
    /\ (call.fn = "validateDTCGFile" /\ call.done) =>
          \A i \in 1..Len(call.result) : ~HasMetadataSegment(call.result[i].path)
    /\ (call.fn = "flattenDTCGTokens" /\ call.done) =>
          \A i \in 1..Len(call.result) : ~HasMetadataSegment(call.result[i].key)

\* the flattener has returned the token g.$meta.x for a document whose group g
\* holds x under the key $meta
C26_Witness ==
    /\ call.fn = "flattenDTCGTokens"
    /\ call.done
    /\ call.arg = JsonObject(<<Entry("g", JsonObject(<<Entry("$meta",
                      JsonObject(<<Entry("x", Token("color", Str("#F00")))>>))>>))>>)
    /\ HasKey(call.result, Chars("g.$meta.x"))

\* the validator has reported the token x below the root key $extensions
ValidatorDescendsIntoRootExtensions ==
    /\ call.fn = "validateDTCGFile"
    /\ call.done
    /\ call.arg = JsonObject(<<Entry("$extensions",
                      JsonObject(<<Entry("x", JsonObject(<<Entry("$type", Str("bogus"))>>))>>))>>)
    /\ \E i \in 1..Len(call.result) : call.result[i].path = Chars("$extensions.x")

\* a segment of the path after the first is $extensions or $description
HasReservedSegment(path) ==
    \E i \in 2..Len(path) :
        /\ path[i] = "$"
        /\ path[i - 1] = "."
        /\ \/ StartsWith(SubSeq(path, i, Len(path)), Chars("$extensions"))
           \/ StartsWith(SubSeq(path, i, Len(path)), Chars("$description"))

\* below the root neither function descends through $extensions or $description
ReservedKeysAreNotDescended ==
    /\ (call.fn = "validateDTCGFile" /\ call.done) =>
          \A i \in 1..Len(call.result) : ~HasReservedSegment(call.result[i].path)
    /\ (call.fn = "flattenDTCGTokens" /\ call.done) =>
          \A i \in 1..Len(call.result) : ~HasReservedSegment(call.result[i].key)

-----------------------------------------------------------------------------
(* Claims about the token set DTCGImporter.ingest returns *)

\* C27 as stated: every alias of the token set DTCGImporter.ingest returned,
\* of a primary or of a mode value, references a key of that token set
C27_AliasesReferenceReturnedTokens ==
    (importer = "dtcg" /\ pc = "fulfilled") => AllAliasesReferenceKeys(tokens)

\* C27: every alias of the token set DTCGImporter.ingest returned, of a
\* primary or of a mode value, references a path of the map the flattener
\* returned, whether or not the token of that path was itself returned
C27_AliasesReferenceFlattenedTokens ==
    (importer = "dtcg" /\ pc = "fulfilled") =>
        \A i \in 1..Len(tokens) :
            \A name \in ReferencesOf(tokens, i) : HasKey(flattenedTokens, name)

\* the document { a: a colour that does not parse, T: an alias of a } was
\* imported: T is returned, a is flattened and not returned, and
\* validateAliasReferences refuses the set
C27_Witness ==
    /\ importer = "dtcg"
    /\ pc = "fulfilled"
    /\ fileLoad.value = JsonObject(<<Entry("a", Token("color", Str("red"))),
                                     Entry("T", Token("color", Str("{a}")))>>)
    /\ HasKey(tokens, Chars("T"))
    /\ Get(tokens, Chars("T")).value = TokenAlias(Chars("a"))
    /\ HasKey(flattenedTokens, Chars("a"))
    /\ ~HasKey(tokens, Chars("a"))
    /\ ~validateAliasReferences(tokens).valid

\* C28: the errors array of an ingest call is empty unless the call has
\* rejected; a result that ingest fulfils with has no errors
C28_ErrorsOnlyOnRejection ==
    errors # <<>> => pc = "rejected"

\* ingest of the variables importer has fulfilled with the warning about the
\* collections and no error, and, for the other importer, with a warning
\* about a token and no error
C28_Witness ==
    /\ pc = "fulfilled"
    /\ errors = <<>>
    /\ \/ importer = "figma" /\ warnings # <<>> /\ warnings[1].kind = "collections-failed"
       \/ importer = "dtcg" /\ warnings # <<>> /\ tokens # <<>>

\* every rejection of a failed request or of a refused document has recorded
\* an error
RejectionRecordsAnError ==
    (pc = "rejected" /\ (importer = "dtcg" \/ varFetch.status = "rejected")) => errors # <<>>

-----------------------------------------------------------------------------
(* Claims about the cycles detectCircularReferences reports *)

\* the names that k >= 1 primary-value aliases lead to from a name
ReachedFrom(tokenSet, name) ==
    {Follow(tokenSet, name, k) : k \in 1..Len(tokenSet)}

\* the names of the tokens that are on a cycle of primary-value aliases
NamesOnCycles(tokenSet) ==
    {tokenSet[i].key : i \in {j \in 1..Len(tokenSet) :
                                tokenSet[j].key \in ReachedFrom(tokenSet, tokenSet[j].key)}}

NamesOf(cycle) == {cycle[p] : p \in 1..Len(cycle)}

\* the entries of cycles that report the cycle a name is on
ReportsOf(tokenSet, cycles, name) ==
    {c \in 1..Len(cycles) : NamesOf(cycles[c]) = ReachedFrom(tokenSet, name)}

\* C29: detectCircularReferences returns cycles in which every cycle of the
\* primary-value aliases is reported by exactly one entry, whatever the order
\* of the tokens and whatever tokens outside the cycle alias into it
C29_EachCycleIsReportedOnce ==
    IsReturned("detectCircularReferences") =>
        /\ ~call.result.threw
        /\ \A name \in NamesOnCycles(call.arg) :
              Cardinality(ReportsOf(call.arg, call.result.cycles, name)) = 1

\* the cycle a, b was found and then the call threw on the third token, an
\* alias of a property of Object.prototype: nothing is returned
C29_Witness ==
    /\ IsReturned("detectCircularReferences")
    /\ call.result.threw
    /\ Len(call.arg) = 3
    /\ call.arg[1].key \in NamesOnCycles(call.arg)
    /\ call.arg[2].key \in NamesOnCycles(call.arg)
    /\ call.arg[3].value.value.type = "alias"
    /\ call.arg[3].value.value.reference \in ObjectPrototypeKeys

\* on every token set the call returns from, each cycle is reported by exactly
\* one entry and every entry reports a cycle
EachCycleIsReportedOnceWhenReturned ==
    (IsReturned("detectCircularReferences") /\ ~call.result.threw) =>
        /\ \A name \in NamesOnCycles(call.arg) :
              Cardinality(ReportsOf(call.arg, call.result.cycles, name)) = 1
        /\ \A c \in 1..Len(call.result.cycles) :
              NamesOf(call.result.cycles[c]) \subseteq NamesOnCycles(call.arg)

\* a cycle that two tokens outside of it alias into, the first of them before
\* the cycle in the token set, is reported once
CycleWithAliasesIntoItIsReportedOnce ==
    /\ IsReturned("detectCircularReferences")
    /\ ~call.result.threw
    /\ Len(call.arg) = 3
    /\ call.arg[1].key \notin NamesOnCycles(call.arg)
    /\ call.arg[1].value.value = TokenAlias(call.arg[2].key)
    /\ call.arg[2].value.value = TokenAlias(call.arg[2].key)
    /\ call.arg[3].value.value = TokenAlias(call.arg[2].key)
    /\ Len(call.result.cycles) = 1

-----------------------------------------------------------------------------
(* Claims about the typography groups of an imported document *)

\* a warning names the path: in its path or in its token name
MentionsPath(warning, path) ==
    IF warning.kind = "collision" THEN IsSubstring(path, warning.tokenName)
    ELSE IsSubstring(path, warning.path)

\* the token set holds a typography token at the path, or a warning names it
IsReturnedOrWarned(path) ==
    \/ \E k \in 1..Len(tokens) : tokens[k].key = path /\ tokens[k].value.type = "typography"
    \/ \E w \in 1..Len(warnings) : MentionsPath(warnings[w], path)

\* every group of the typography groups that composed, or every one that did
\* not, is returned or warned of
AreReturnedOrWarned(typographyGroups, composed) ==
    \A g \in 1..Len(typographyGroups) :
        (composed <=> IsSynthetic(flattenedTokens, typographyGroups[g].key)) =>
            IsReturnedOrWarned(typographyGroups[g].key)

\* C30: when DTCGImporter.ingest has fulfilled, for every group of the
\* document that the flattener took for a typography group the token set
\* holds a typography token at the group's path or a warning names the path
C30_TypographyGroupIsNeverDropped ==
    (importer = "dtcg" /\ pc = "fulfilled") =>
        /\ AreReturnedOrWarned(Walk(fileLoad.value).typographyGroups, TRUE)
        /\ AreReturnedOrWarned(Walk(fileLoad.value).typographyGroups, FALSE)

\* the document { a: { fontFamily: a dimension, fontSize: a dimension } } was
\* imported: a is a typography group, and the result has no token and no warning
C30_Witness ==
    /\ importer = "dtcg"
    /\ pc = "fulfilled"
    /\ fileLoad.value = JsonObject(<<Entry("a", DimensionGroup)>>)
    /\ HasKey(Walk(fileLoad.value).typographyGroups, Chars("a"))
    /\ tokens = <<>>
    /\ warnings = <<>>

\* a typography group that composed is returned as a typography token or
\* warned of
ComposedGroupIsNeverDropped ==
    (importer = "dtcg" /\ pc = "fulfilled") =>
        AreReturnedOrWarned(Walk(fileLoad.value).typographyGroups, TRUE)

\* a typography group was imported as a typography token
ComposedGroupIsReturned ==
    /\ importer = "dtcg"
    /\ pc = "fulfilled"
    /\ \E k \in 1..Len(tokens) :
          /\ tokens[k].value.type = "typography"
          /\ HasKey(Walk(fileLoad.value).typographyGroups, tokens[k].key)

=============================================================================
